---- MODULE Spec2Model ----
(***************************************************************************)
(* WorkSpace Manager: the polling daemon (src/daemon.py), its SQLite store *)
(* (src/db.py), the application controller (src/main.py), the restore      *)
(* entry point (src/restore.py) and the native messaging host              *)
(* (src/native_host/host.py), over a small model of the operating system's *)
(* virtual desktops and top-level windows.                                 *)
(***************************************************************************)
EXTENDS Integers, Sequences, FiniteSets, TLC

\* ---- bounds -------------------------------------------------------------
MaxDesktops == 3      \* desktop ids ever handed out by the OS (ids are never reused)
MaxSessions == 2      \* rows ever inserted into the sessions table
MaxWindows  == 2      \* top-level windows known to the OS
MaxCaptureWindows == 1   \* windows opened in the capture specification
MaxSuppress == 1      \* cap on the suppress counter
MaxTicks    == 3      \* time ticks a session is credited with (total_seconds <= 60 * MaxTicks)
MaxHotkeyThreads == 2  \* hotkey handler threads alive at the same time
MaxClock    == 5      \* last reading of the clock (units of 250 ms)
MaxDesktopsSmall == 2  \* desktop ids handed out in the topology, capture and
                       \* salvage specifications
MaxRestoreItems == 2  \* stored tabs plus stored windows of a restored session
MaxFailAt   == 4      \* launches from this ordinal on do not fail
MaxOpenItems == 2     \* items passed to launcher.open_all
MaxApps     == 2      \* app views returned by get_apps_by_z_order()
MaxNames    == 9      \* executable names among the stored windows of get_session_stats
MaxMinutes  == 61     \* whole minutes of a session's total_seconds in get_session_stats
MaxCallThreads == 2   \* threads that call Daemon.create_session of src/src/core

None       == 0       \* Python's None / a missing dict key
RowId      == -1      \* an AUTOINCREMENT row id (abstracted: distinct from every tab id)
DesktopIds == 1..MaxDesktops
SessionIds == 1..MaxSessions
Hwnds      == 1..MaxWindows

VARIABLES
    \* operating system
    desktops,            \* set of existing virtual desktop ids
    os_current,          \* the desktop that has focus
    next_desktop,        \* id the OS gives to the next created desktop
    win_desktop,         \* hwnd -> desktop the window lives on (None: not open)
    \* WorkSpaceDaemon fields
    _prev_count, _prev_ids, _active_id, _session_map, _suppress_count,
    first_snapshot,      \* pending QTimer.singleShot(2000, ...) of register_session
    \* WorkSpaceApp / SpotlightWindow
    _pending_desktop_id, prompt_shown,
    \* database tables (sequence index = session id)
    sessions, windows, chrome_tabs,
    \* observation
    out,                 \* signals and log lines of the handler that just ran
    create_log,          \* create_log[i] = desktop id passed to the i-th create_session
    restore_created,     \* desktop ids created by create_restore_desktop
    \* the daemon's position inside _save_snapshot_safe
    saving,              \* the locals of the call that has read the stored tabs
    \* the threaded daemon (src/src/core): DesktopWatcher, Daemon, HotkeyManager
    _known_desktops,     \* DesktopWatcher._known_desktops
    watcher,             \* the watcher thread's position inside _tick
    _active,             \* Daemon._active: desktop id -> session row id (None: no key)
    _pending_prompts,    \* Daemon._pending_prompts
    _last_hotkey_time,   \* Daemon._last_hotkey_time
    core_sessions,       \* sessions table of src/src/db/database.py (row = desktop id)
    clock,               \* time.time(), in units of 100 ms
    hotkey_threads,      \* thread -> position and locals inside _handle_hotkey_new_session
    creating,            \* desktop id of the create_session call that has released the lock
    requests,            \* desktop id -> naming requests emitted and not yet answered
    \* one call of a function that reads no daemon state
    args,                \* the arguments and the environment's answers of the call
    ret,                 \* what the call returned and what it did
    stopped,             \* WorkSpaceDaemon.stop() has returned
    cancelled,           \* desktop ids whose naming prompt the user has cancelled
    \* Daemon.create_session of src/src/core called from several threads
    create_calls,        \* thread -> position and locals inside create_session
    uncommitted,         \* rows at the end of core_sessions inserted and not yet committed
    moved                \* hwnd -> the removed desktop whose closing moved the window

vars == <<desktops, os_current, next_desktop, win_desktop,
          _prev_count, _prev_ids, _active_id, _session_map, _suppress_count,
          first_snapshot, _pending_desktop_id, prompt_shown,
          sessions, windows, chrome_tabs, out, create_log, restore_created,
          saving, _known_desktops, watcher, _active, _pending_prompts,
          _last_hotkey_time, core_sessions, clock, hotkey_threads, creating,
          requests, args, ret, stopped, cancelled, create_calls, uncommitted, moved>>

os_vars     == <<desktops, os_current, next_desktop, win_desktop>>
daemon_vars == <<_prev_count, _prev_ids, _active_id, _session_map, _suppress_count,
                 first_snapshot>>
app_vars    == <<_pending_desktop_id, prompt_shown>>
db_vars     == <<sessions, windows, chrome_tabs>>
core_vars   == <<_known_desktops, watcher, _active, _pending_prompts,
                 _last_hotkey_time, core_sessions, clock, hotkey_threads,
                 creating, requests>>
\* what the handlers of the Qt application never assign
call_vars   == <<args, ret>>
ext_vars    == <<saving, core_vars, call_vars, stopped, cancelled,
                 create_calls, uncommitted, moved>>

\* ---- helpers ------------------------------------------------------------
\* dict.get(key, default)
Get(t, k, dflt) == IF k \in DOMAIN t THEN t[k] ELSE dflt

\* str.lower() on the executable names of the model
Lower(s) ==
    CASE s = "Code.exe" -> "code.exe"
      [] s = "NOTEPAD.EXE" -> "notepad.exe"
      [] s = "WINWORD.EXE" -> "winword.exe"
      [] s = "Explorer.EXE" -> "explorer.exe"
      [] OTHER -> s

\* executable base name psutil reports for a window's process ("" when the
\* process cannot be inspected)
ExeOf(h) ==
    CASE h = 1 -> "Code.exe"
      [] h = 2 -> ""
      [] h = 3 -> "code.exe"
      [] OTHER -> "NOTEPAD.EXE"

\* no call of a function outside the daemon has been made
NoCall == [fn |-> "none"]

\* no _save_snapshot_safe call is in progress
NotSaving == [session_id |-> None, windows |-> <<>>, tabs |-> <<>>]

CallThreads == 1..MaxCallThreads

\* a thread that has not called create_session
NotCalling == [pc |-> "out", desktop_id |-> None, id |-> None]

NoOut == [new_desktop_detected |-> {}, suppressed |-> {},
          snapshot_saved |-> {}, kept_previous |-> {}, salvaged |-> {},
          log |-> <<>>]

\* ---- snapshot.py --------------------------------------------------------
get_desktop_count(fail)      == IF fail THEN 1 ELSE Cardinality(desktops)
get_all_desktop_ids(fail)    == IF fail THEN {} ELSE desktops
get_current_desktop_id(fail) == IF fail THEN None ELSE os_current

\* all_windows.get(desktop_id, []) of one snapshot_all_desktops() result;
\* fail: get_apps_by_z_order() raised and the result is {}
snapshot_all_desktops(fail, desktop_id) ==
    IF fail \/ desktop_id = None THEN <<>>
    ELSE SelectSeq([h \in Hwnds |-> [hwnd |-> h, exe_name |-> ExeOf(h)]],
                   LAMBDA w : win_desktop[w.hwnd] = desktop_id)

\* ---- snapshot.py: the filter of snapshot_all_desktops ---------------------------
\* A title is the sequence of its characters. An app view carries what the
\* Win32 and pyvda calls answer for it: desktop = None when app.desktop raises.
EXCLUDED_EXE ==
    {"explorer.exe", "dwm.exe", "winlogon.exe", "csrss.exe",
     "svchost.exe", "lsass.exe", "services.exe", "smss.exe",
     "taskhost.exe", "conhost.exe", "searchui.exe", "shellexperiencehost.exe",
     "applicationframehost.exe", "systemsettings.exe", "workspacemanager.exe",
     "searchhost.exe", "startmenuexperiencehost.exe", "textinputhost.exe",
     "runtimebroker.exe", "sihost.exe", "taskhostw.exe"}

UserWindow == [is_window |-> TRUE, title |-> <<"a", "b">>, parent |-> 0,
               caption |-> TRUE, exe_name |-> "Code.exe"]

\* a user window and the ways an app view differs from one
AppKinds ==
    {UserWindow,
     [UserWindow EXCEPT !.is_window = FALSE],
     [UserWindow EXCEPT !.title = <<"a">>],
     [UserWindow EXCEPT !.title = <<" ", "a">>],
     [UserWindow EXCEPT !.title = <<" ", "a", "b">>],
     [UserWindow EXCEPT !.parent = 7],
     [UserWindow EXCEPT !.caption = FALSE],
     [UserWindow EXCEPT !.exe_name = "explorer.exe"],
     [UserWindow EXCEPT !.exe_name = "Explorer.EXE"],
     [UserWindow EXCEPT !.exe_name = ""],
     [UserWindow EXCEPT !.title = <<"a">>, !.exe_name = "explorer.exe"],
     [UserWindow EXCEPT !.parent = 7, !.caption = FALSE]}

\* str.strip() on a title
RECURSIVE lstrip(_)
lstrip(t) == IF t # <<>> /\ t[1] = " " THEN lstrip(Tail(t)) ELSE t

RECURSIVE rstrip(_)
rstrip(t) == IF t # <<>> /\ t[Len(t)] = " " THEN rstrip(SubSeq(t, 1, Len(t) - 1)) ELSE t

strip(t) == rstrip(lstrip(t))

\* _is_capturable without the WS_CAPTION test
_is_capturable_NoCaption(app) ==
    /\ app.hwnd # 0
    /\ app.is_window
    /\ Len(strip(app.title)) >= 2
    /\ app.parent = 0

_is_capturable(app) ==
    /\ app.hwnd # 0
    /\ app.is_window
    /\ Len(strip(app.title)) >= 2
    /\ app.parent = 0
    /\ app.caption

\* the loop of snapshot_all_desktops over all_apps; result[d] = <<>> stands for
\* a desktop id that is no key of the dict
RECURSIVE AppsLoop(_, _, _)
AppsLoop(result, all_apps, i) ==
    IF i > Len(all_apps) THEN result
    ELSE LET app == all_apps[i] IN
         IF \/ app.hwnd = 0
            \/ ~app.is_window
            \/ Len(strip(app.title)) < 2
            \/ ~_is_capturable(app)
            \/ app.desktop = None
            \/ Lower(app.exe_name) \in EXCLUDED_EXE
         THEN AppsLoop(result, all_apps, i + 1)
         ELSE AppsLoop([result EXCEPT ![app.desktop] =
                           Append(@, [hwnd |-> app.hwnd, title |-> app.title,
                                      exe_name |-> app.exe_name])],
                       all_apps, i + 1)

\* snapshot_all_desktops() when get_apps_by_z_order() returns all_apps
snapshot_all_apps(all_apps) ==
    [fn |-> "snapshot_all_desktops",
     result |-> AppsLoop([d \in 1..MaxDesktopsSmall |-> <<>>], all_apps, 1)]

\* one snapshot_all_desktops call on the app views drawn at the start
SnapshotAllDesktops ==
    /\ args.fn = "snapshot_all_desktops" /\ ret.fn = "none"
    /\ ret' = snapshot_all_apps(args.all_apps)
    /\ UNCHANGED <<os_vars, daemon_vars, app_vars, db_vars, out, create_log,
                   restore_created, saving, core_vars, args, stopped, cancelled,
                   create_calls, uncommitted, moved>>

\* ---- db.py ----------------------------------------------------------------
\* D: the tables as db.py reads them, and log: what the running handler has
\* done that no code reads back, in order: rows inserted into the snapshots
\* table, assignments to _last_snap, snapshot_saved emissions
DB == [sessions |-> sessions, windows |-> windows, chrome_tabs |-> chrome_tabs,
       log |-> <<>>]

Logged(o, D) == [o EXCEPT !.log = D.log]

Commit(D) ==
    /\ sessions' = D.sessions
    /\ windows' = D.windows
    /\ chrome_tabs' = D.chrome_tabs

create_session(D, virtual_desktop_id) ==
    [sessions    |-> Append(D.sessions, [status |-> "active",
                                         virtual_desktop_id |-> virtual_desktop_id,
                                         total_seconds |-> 0]),
     windows     |-> Append(D.windows, <<>>),
     chrome_tabs |-> Append(D.chrome_tabs, <<>>),
     log         |-> D.log]

lastrowid(D) == Len(D.sessions) + 1

\* a row removed by delete_session; AUTOINCREMENT never hands its id out again
Deleted == [status |-> "deleted", virtual_desktop_id |-> None, total_seconds |-> 0]

\* SELECT ... FROM sessions WHERE id = session_id finds a row
Exists(D, session_id) ==
    session_id \in DOMAIN D.sessions /\ D.sessions[session_id] # Deleted

\* ON DELETE CASCADE of the windows, chrome_tabs and snapshots tables
Cascade(session_id) == [ev |-> "snapshots_deleted", session_id |-> session_id]

delete_session(D, session_id) ==
    IF Exists(D, session_id)
    THEN [D EXCEPT !.sessions[session_id] = Deleted,
                   !.windows[session_id] = <<>>,
                   !.chrome_tabs[session_id] = <<>>,
                   !.log = Append(@, Cascade(session_id))]
    ELSE D

update_session_status_Reset(D, session_id, status) ==
    IF Exists(D, session_id)
    THEN [D EXCEPT !.sessions[session_id].status = status,
                   !.sessions[session_id].total_seconds = 0]
    ELSE D

update_session_status(D, session_id, status) ==
    IF Exists(D, session_id)
    THEN [D EXCEPT !.sessions[session_id].status = status]
    ELSE D

add_session_time_Overwrite(D, session_id, seconds) ==
    IF Exists(D, session_id)
    THEN [D EXCEPT !.sessions[session_id].total_seconds = seconds]
    ELSE D

add_session_time(D, session_id, seconds) ==
    IF Exists(D, session_id)
    THEN [D EXCEPT !.sessions[session_id].total_seconds = @ + seconds]
    ELSE D

get_windows(D, session_id)     == D.windows[session_id]
get_chrome_tabs(D, session_id) == D.chrome_tabs[session_id]

\* PRAGMA foreign_keys=ON: an INSERT whose session_id has no sessions row
\* raises sqlite3.IntegrityError and the transaction is rolled back
save_windows(D, session_id, ws) ==
    IF ~Exists(D, session_id) THEN D ELSE
    [D EXCEPT !.windows[session_id] =
        [i \in 1..Len(ws) |-> [hwnd     |-> Get(ws[i], "hwnd", None),
                               exe_name |-> Get(ws[i], "exe_name", None)]]]

StoredTabs(tabs) ==
    [i \in 1..Len(tabs) |-> [id          |-> RowId,
                             tab_id      |-> Get(tabs[i], "id", None),
                             url         |-> Get(tabs[i], "url", None),
                             favicon_url |-> Get(tabs[i], "favIconUrl", "")]]

save_chrome_tabs_NoForeignKey(D, session_id, tabs) ==
    [D EXCEPT !.chrome_tabs[session_id] = StoredTabs(tabs)]

save_chrome_tabs(D, session_id, tabs) ==
    IF ~Exists(D, session_id) THEN D ELSE
    [D EXCEPT !.chrome_tabs[session_id] = StoredTabs(tabs)]

SnapshotRow_Replacing(session_id, ws, tabs) ==
    [ev |-> "snapshots_deleted", session_id |-> session_id,
     window_count |-> Len(ws), tab_count |-> Len(tabs)]

SnapshotRow_ZeroTabs(session_id, ws, tabs) ==
    [ev |-> "snapshots", session_id |-> session_id,
     window_count |-> Len(ws), tab_count |-> 0]

SnapshotRow(session_id, ws, tabs) ==
    [ev |-> "snapshots", session_id |-> session_id,
     window_count |-> Len(ws), tab_count |-> Len(tabs)]

\* save_snapshot is three transactions in a row; committed of them commit
\* before sqlite3 raises (3: none raises)
save_snapshot_upto(D, session_id, ws, tabs, committed) ==
    IF ~Exists(D, session_id) THEN D ELSE
    LET D1 == IF committed >= 1
              THEN [D EXCEPT !.log = Append(@, SnapshotRow(session_id, ws, tabs))]
              ELSE D
        D2 == IF committed >= 2 THEN save_windows(D1, session_id, ws) ELSE D1
    IN  IF committed >= 3 THEN save_chrome_tabs(D2, session_id, tabs) ELSE D2

save_snapshot(D, session_id, ws, tabs) ==
    save_snapshot_upto(D, session_id, ws, tabs, 3)

\* ---- db.py: get_session_stats ------------------------------------------------
\* the i-th executable name of the stored windows
StatName(i) ==
    CASE i = 1 -> ""
      [] i = 2 -> "Explorer.EXE"
      [] i = 3 -> "a.exe"
      [] i = 4 -> "b.exe"
      [] i = 5 -> "c.exe"
      [] i = 6 -> "d.exe"
      [] i = 7 -> "e.exe"
      [] i = 8 -> "f.exe"
      [] i = 9 -> "g.exe"
      [] i = 10 -> "h.exe"
      [] OTHER -> "dwm.exe"

\* the duration f-strings: "< 1m", f"{mins}m", f"{hours}h {mins}m"
Duration_MinutesOfTotal(total_secs) ==
    LET hours == total_secs \div 3600
        mins  == total_secs \div 60
    IN  IF hours > 0 THEN [fmt |-> "Nh Mm", h |-> hours, m |-> mins]
        ELSE IF mins > 0 THEN [fmt |-> "Nm", h |-> 0, m |-> mins]
        ELSE [fmt |-> "< 1m", h |-> 0, m |-> 0]

Duration(total_secs) ==
    LET hours == total_secs \div 3600
        rem   == total_secs % 3600
        mins  == rem \div 60
    IN  IF hours > 0 THEN [fmt |-> "Nh Mm", h |-> hours, m |-> mins]
        ELSE IF mins > 0 THEN [fmt |-> "Nm", h |-> 0, m |-> mins]
        ELSE [fmt |-> "< 1m", h |-> 0, m |-> 0]

\* the set comprehension of get_session_stats
StatApps(ws) ==
    {ws[i].exe_name : i \in {k \in DOMAIN ws :
        /\ ws[k].exe_name # ""
        /\ Lower(ws[k].exe_name) \notin {"explorer.exe", "dwm.exe", "winlogon.exe"}}}

\* session: the row get_session returns (found = FALSE: None); top: the
\* elements list(set)[:6] happens to hold, the order of a set being arbitrary
get_session_stats(ws, tabs, session, top) ==
    [fn           |-> "get_session_stats",
     app_count    |-> Cardinality(StatApps(ws)),
     apps         |-> top,
     tab_count    |-> Len(tabs),
     window_count |-> Len(ws),
     duration     |-> Duration(IF session.found THEN session.total_seconds ELSE 0)]

\* one get_session_stats call on the stored rows drawn at the start
GetSessionStats ==
    /\ args.fn = "get_session_stats" /\ ret.fn = "none"
    /\ \E top \in SUBSET StatApps(args.windows) :
          /\ Cardinality(top) = IF Cardinality(StatApps(args.windows)) < 6
                                THEN Cardinality(StatApps(args.windows)) ELSE 6
          /\ ret' = get_session_stats(args.windows, args.tabs, args.session, top)
    /\ UNCHANGED <<os_vars, daemon_vars, app_vars, db_vars, out, create_log,
                   restore_created, saving, core_vars, args, stopped, cancelled,
                   create_calls, uncommitted, moved>>

\* ---- daemon.py: capture writes -------------------------------------------
KeepsPrevious_Never(D, session_id, ws) == FALSE

\* the branch of _save_snapshot_safe that returns without writing
KeepsPrevious(D, session_id, ws) ==
    ws = <<>> /\ get_windows(D, session_id) # <<>>

Stamped(session_id) == [ev |-> "_last_snap", session_id |-> session_id]
Emitted(session_id) == [ev |-> "snapshot_saved", session_id |-> session_id]

\* _save_snapshot_safe after its first statement, tabs being what it read
Failed(session_id) == [ev |-> "error", session_id |-> session_id]

\* for a deleted session db.save_snapshot raises; every caller runs inside a
\* try/except that prints the error
SaveWith(D, session_id, ws, tabs) ==
    IF ~Exists(D, session_id)
    THEN [D EXCEPT !.log = Append(@, Failed(session_id))]
    ELSE IF KeepsPrevious(D, session_id, ws)
    THEN [D EXCEPT !.log = Append(@, Stamped(session_id))]
    ELSE [save_snapshot(D, session_id, ws, tabs) EXCEPT
             !.log = @ \o <<Stamped(session_id), Emitted(session_id)>>]

_save_snapshot_safe(D, session_id, ws) ==
    SaveWith(D, session_id, ws, get_chrome_tabs(D, session_id))

_do_snapshot_for(D, session_id, desktop_id, fail) ==
    _save_snapshot_safe(D, session_id, snapshot_all_desktops(fail, desktop_id))

\* log/signal record of one _save_snapshot_safe call
SnapshotOut(D, session_id, ws) ==
    IF ~Exists(D, session_id) THEN NoOut
    ELSE IF KeepsPrevious(D, session_id, ws)
    THEN [NoOut EXCEPT !.kept_previous = {session_id}]
    ELSE [NoOut EXCEPT !.snapshot_saved = {session_id}]

known_exes(prev_windows) ==
    {Lower(prev_windows[i].exe_name) :
        i \in {j \in DOMAIN prev_windows : prev_windows[j].exe_name # ""}}

Matched_All(current_windows, known) == current_windows

Matched(current_windows, known) ==
    SelectSeq(current_windows, LAMBDA w : Lower(Get(w, "exe_name", "")) \in known)

\* the windows _salvage_on_close writes (<<>>: it returns or keeps the old list)
SalvageMatched(D, session_id, current_desktop_id, fail) ==
    LET prev_windows == get_windows(D, session_id)
        known        == known_exes(prev_windows)
    IN  IF prev_windows = <<>> \/ known = {} THEN <<>>
        ELSE Matched(snapshot_all_desktops(fail, current_desktop_id), known)

_salvage_on_close(D, session_id, current_desktop_id, fail) ==
    LET matched == SalvageMatched(D, session_id, current_desktop_id, fail) IN
    IF matched = <<>> THEN D
    ELSE save_snapshot(D, session_id, matched, get_chrome_tabs(D, session_id))

\* ---- daemon.py: _poll ---------------------------------------------------
InMap(desktop_id) == desktop_id \in DesktopIds /\ _session_map[desktop_id] # None

Announced_Unsuppressed(new_ids, suppress) == new_ids

\* ids announced by new_desktop_detected in the new-desktop branch
Announced(new_ids, suppress) == IF suppress > 0 THEN {} ELSE new_ids

\* ids swallowed by the suppress counter in the new-desktop branch
Swallowed(new_ids, suppress) == IF suppress > 0 THEN new_ids ELSE {}

SuppressAfter(suppress) == IF suppress > 0 THEN suppress - 1 ELSE suppress

\* the removal loop: salvage, then mark idle, for every removed id in the map
RECURSIVE RemoveLoop(_, _, _, _)
RemoveLoop(D, removed_ids, current_active, fail) ==
    IF removed_ids = {} THEN D
    ELSE LET did == CHOOSE d \in removed_ids : TRUE
             sid == _session_map[did]
             D1  == IF InMap(did)
                    THEN update_session_status(
                             _salvage_on_close(D, sid, current_active, fail),
                             sid, "idle")
                    ELSE D
         IN  RemoveLoop(D1, removed_ids \ {did}, current_active, fail)

PollNew(current_ids, current_active) ==
    LET new_ids == current_ids \ _prev_ids
        emitted == Announced(new_ids, _suppress_count)
    IN  /\ _active_id' = current_active
        /\ _suppress_count' = SuppressAfter(_suppress_count)
        /\ out' = [NoOut EXCEPT !.new_desktop_detected = emitted,
                                !.suppressed = Swallowed(new_ids, _suppress_count)]
        \* main.py _on_new_desktop runs once per emitted id, in set order, and
        \* shows the Spotlight prompt (its 300 ms single-shot delay is elided)
        /\ IF emitted = {}
           THEN UNCHANGED <<_pending_desktop_id, prompt_shown>>
           ELSE /\ _pending_desktop_id' \in emitted
                /\ prompt_shown' = TRUE
        /\ UNCHANGED db_vars

PollRemoved(current_ids, current_active, fail) ==
    LET removed_ids == _prev_ids \ current_ids
        D == RemoveLoop(DB, removed_ids, current_active, fail)
    IN
    /\ Commit(D)
    /\ _active_id' = IF \E did \in removed_ids : InMap(did) /\ _active_id = did
                     THEN current_active ELSE _active_id
    /\ out' = [NoOut EXCEPT !.salvaged =
                 {_session_map[did] : did \in {d \in removed_ids : InMap(d)
                     /\ _session_map[d] \in DOMAIN sessions
                     /\ SalvageMatched(DB, _session_map[d], current_active, fail)
                            # <<>>}},
                 !.log = D.log]
    /\ UNCHANGED <<_suppress_count, _pending_desktop_id, prompt_shown>>

\* the switch branch without the status write for the desktop that is left
PollSwitch_NoPause(current_active, fail) ==
    IF current_active # None /\ current_active # _active_id
    THEN LET old_id == _active_id
             leave  == old_id # None /\ InMap(old_id)
             ws     == snapshot_all_desktops(fail, old_id)
             D1     == IF leave
                       THEN _save_snapshot_safe(DB, _session_map[old_id], ws)
                       ELSE DB
             D2     == IF InMap(current_active)
                       THEN update_session_status(D1, _session_map[current_active],
                                                  "active")
                       ELSE D1
         IN  /\ Commit(D2)
             /\ _active_id' = current_active
             /\ out' = IF leave
                       THEN Logged(SnapshotOut(DB, _session_map[old_id], ws), D2)
                       ELSE NoOut
             /\ UNCHANGED <<_suppress_count, _pending_desktop_id, prompt_shown>>
    ELSE /\ out' = NoOut
         /\ UNCHANGED <<db_vars, _active_id, _suppress_count,
                        _pending_desktop_id, prompt_shown>>

PollSwitch(current_active, fail) ==
    IF current_active # None /\ current_active # _active_id
    THEN LET old_id == _active_id
             leave  == old_id # None /\ InMap(old_id)
             ws     == snapshot_all_desktops(fail, old_id)
             D1     == IF leave
                       THEN update_session_status(
                                _save_snapshot_safe(DB, _session_map[old_id], ws),
                                _session_map[old_id], "paused")
                       ELSE DB
             D2     == IF InMap(current_active)
                       THEN update_session_status(D1, _session_map[current_active],
                                                  "active")
                       ELSE D1
         IN  /\ Commit(D2)
             /\ _active_id' = current_active
             /\ out' = IF leave
                       THEN Logged(SnapshotOut(DB, _session_map[old_id], ws), D2)
                       ELSE NoOut
             /\ UNCHANGED <<_suppress_count, _pending_desktop_id, prompt_shown>>
    ELSE /\ out' = NoOut
         /\ UNCHANGED <<db_vars, _active_id, _suppress_count,
                        _pending_desktop_id, prompt_shown>>

\* one timer tick of _poll.  fail: the virtual-desktop service raised during
\* this tick, so the three queries of snapshot.py returned their fallback
\* values; fcap: the window enumeration of snapshot_all_desktops raised
PollTick(fail, fcap) ==
    LET current_count  == get_desktop_count(fail)
        current_ids    == get_all_desktop_ids(fail)
        current_active == get_current_desktop_id(fail)
    IN  /\ IF current_count > _prev_count
           THEN PollNew(current_ids, current_active)
           ELSE IF current_count < _prev_count
           THEN PollRemoved(current_ids, current_active, fcap)
           ELSE PollSwitch(current_active, fcap)
        /\ _prev_count' = current_count
        /\ _prev_ids' = current_ids
        /\ UNCHANGED <<os_vars, _session_map, first_snapshot,
                       create_log, restore_created, ext_vars>>

Poll == \E fail, fcap \in BOOLEAN : PollTick(fail, fcap)

\* the tick reaches a database call outside _do_snapshot_for (which has its
\* own try/except): the salvage and status writes of the removal branch, the
\* status writes of the switch branch
PollWrites(fail) ==
    LET current_count  == get_desktop_count(fail)
        current_ids    == get_all_desktop_ids(fail)
        current_active == get_current_desktop_id(fail)
    IN  IF current_count > _prev_count THEN FALSE
        ELSE IF current_count < _prev_count
        THEN \E did \in _prev_ids \ current_ids : InMap(did)
        ELSE /\ current_active # None /\ current_active # _active_id
             /\ \/ _active_id # None /\ InMap(_active_id)
                \/ InMap(current_active)

\* one tick of _poll while the database cannot be used (sqlite3 raises on
\* every call): the first call outside _do_snapshot_for raises into the
\* except clause of _poll, before any field of the daemon is assigned
PollTickDbDown(fail, fcap) ==
    IF PollWrites(fail)
    THEN /\ out' = NoOut
         /\ UNCHANGED <<os_vars, daemon_vars, app_vars, db_vars, create_log,
                        restore_created, ext_vars>>
    ELSE PollTick(fail, fcap)

PollDbDown == \E fail, fcap \in BOOLEAN : PollTickDbDown(fail, fcap)

\* ---- daemon.py: snapshots -------------------------------------------------
Capturing_AnyStatus(D, sid) == sid \in DOMAIN D.sessions

\* the sessions _snapshot_all does not skip: db.get_session finds the row and
\* its status is active or paused
Capturing(D, sid) ==
    sid \in DOMAIN D.sessions /\ D.sessions[sid].status \in {"active", "paused"}

RECURSIVE SnapshotLoop(_, _, _)
SnapshotLoop(D, ids, fail) ==
    IF ids = {} THEN D
    ELSE LET did == CHOOSE d \in ids : TRUE
             sid == _session_map[did]
             D1  == IF Capturing(D, sid)
                    THEN _save_snapshot_safe(D, sid, snapshot_all_desktops(fail, did))
                    ELSE D
         IN  SnapshotLoop(D1, ids \ {did}, fail)

Snapshotted == {did \in DesktopIds : InMap(did)
                   /\ _session_map[did] \in DOMAIN sessions
                   /\ sessions[_session_map[did]].status \in {"active", "paused"}}

_snapshot_all(fail) ==
    LET D == SnapshotLoop(DB, {did \in DesktopIds : InMap(did)}, fail) IN
    /\ Commit(D)
    /\ out' = [NoOut EXCEPT
                 !.log = D.log,
                 !.kept_previous  = {_session_map[d] : d \in {x \in Snapshotted :
                     KeepsPrevious(DB, _session_map[x], snapshot_all_desktops(fail, x))}},
                 !.snapshot_saved = {_session_map[d] : d \in {x \in Snapshotted :
                     ~KeepsPrevious(DB, _session_map[x], snapshot_all_desktops(fail, x))}}]
    /\ UNCHANGED <<os_vars, daemon_vars, app_vars, create_log, restore_created, ext_vars>>

SnapshotAll == \E fail \in BOOLEAN : _snapshot_all(fail)

\* the delayed first snapshot scheduled by register_session
FirstSnapshot(session_id, desktop_id, fail) ==
    /\ <<session_id, desktop_id>> \in first_snapshot
    /\ first_snapshot' = first_snapshot \ {<<session_id, desktop_id>>}
    /\ Commit(_do_snapshot_for(DB, session_id, desktop_id, fail))
    /\ out' = Logged(SnapshotOut(DB, session_id,
                                 snapshot_all_desktops(fail, desktop_id)),
                     _do_snapshot_for(DB, session_id, desktop_id, fail))
    /\ UNCHANGED <<os_vars, _prev_count, _prev_ids, _active_id, _session_map,
                   _suppress_count, app_vars, create_log, restore_created, ext_vars>>

DelayedSnapshot ==
    \E p \in first_snapshot, fail \in BOOLEAN : FirstSnapshot(p[1], p[2], fail)

force_snapshot(fcur, fail) ==
    LET current == get_current_desktop_id(fcur) IN
    /\ current # None /\ InMap(current)
    /\ Commit(_do_snapshot_for(DB, _session_map[current], current, fail))
    /\ out' = Logged(SnapshotOut(DB, _session_map[current],
                                 snapshot_all_desktops(fail, current)),
                     _do_snapshot_for(DB, _session_map[current], current, fail))
    /\ UNCHANGED <<os_vars, daemon_vars, app_vars, create_log, restore_created, ext_vars>>

ForceSnapshot == \E fcur, fail \in BOOLEAN : force_snapshot(fcur, fail)

\* force_snapshot while the database fails: db.save_snapshot raises after
\* committed of its transactions; _save_snapshot_safe is left by the
\* exception, which _do_snapshot_for catches
force_snapshot_raising(fcur, fail, committed) ==
    LET current == get_current_desktop_id(fcur)
        sid     == _session_map[current]
        ws      == snapshot_all_desktops(fail, current)
        D       == save_snapshot_upto(DB, sid, ws, get_chrome_tabs(DB, sid), committed)
    IN  /\ current # None /\ InMap(current)
        /\ sid \in DOMAIN sessions
        /\ ~KeepsPrevious(DB, sid, ws)
        /\ Commit(D)
        /\ out' = Logged(NoOut, D)
        /\ UNCHANGED <<os_vars, daemon_vars, app_vars, create_log, restore_created,
                       ext_vars>>

ForceSnapshotRaising ==
    \E fcur, fail \in BOOLEAN, committed \in 0..2 :
        force_snapshot_raising(fcur, fail, committed)

suppress_next_new_desktop ==
    /\ _suppress_count < MaxSuppress
    /\ _suppress_count' = _suppress_count + 1
    /\ out' = NoOut
    /\ UNCHANGED <<os_vars, _prev_count, _prev_ids, _active_id, _session_map,
                   first_snapshot, app_vars, db_vars, create_log, restore_created, ext_vars>>

\* D: the store as left by the caller's create_session
register_session(D, session_id, desktop_id) ==
    /\ _session_map' = [_session_map EXCEPT ![desktop_id] = session_id]
    /\ Commit(update_session_status(D, session_id, "active"))
    /\ first_snapshot' = first_snapshot \cup {<<session_id, desktop_id>>}

receive_chrome_tabs(session_id, tabs) ==
    /\ session_id \in DOMAIN sessions
    /\ Commit(save_chrome_tabs(DB, session_id, tabs))
    /\ out' = NoOut
    /\ UNCHANGED <<os_vars, daemon_vars, app_vars, create_log, restore_created, ext_vars>>

ReceiveChromeTabs ==
    \E session_id \in SessionIds, tabs \in {<<>>, <<[id |-> 7, url |-> "https://a",
                                                     favIconUrl |-> "a.ico"]>>} :
        receive_chrome_tabs(session_id, tabs)

\* ---- daemon.py: time tracking ------------------------------------------------
TICK_SECONDS == 60

\* the loop of _tick_time over the items of _session_map
RECURSIVE TickLoop(_, _)
TickLoop(D, ids) ==
    IF ids = {} THEN D
    ELSE LET did == CHOOSE d \in ids : TRUE
             sid == _session_map[did]
             D1  == IF sid \in DOMAIN D.sessions /\ D.sessions[sid].status = "active"
                    THEN add_session_time(D, sid, TICK_SECONDS)
                    ELSE D
         IN  TickLoop(D1, ids \ {did})

_tick_time ==
    /\ \A i \in DOMAIN sessions :
          sessions[i].total_seconds + TICK_SECONDS <= TICK_SECONDS * MaxTicks
    /\ Commit(TickLoop(DB, {did \in DesktopIds : InMap(did)}))
    /\ out' = NoOut
    /\ UNCHANGED <<os_vars, daemon_vars, app_vars, create_log, restore_created, ext_vars>>

\* ---- daemon.py: start-up ----------------------------------------------------
\* the maps _load_session_map can build: for a desktop id stored in several
\* active or paused rows the row iterated last wins; the iteration order is
\* updated_at, which is not kept here, so any of those rows may be the one
_load_session_map ==
    {m \in [DesktopIds -> SessionIds \cup {None}] :
        \A d \in DesktopIds :
            LET rows == {i \in DOMAIN sessions :
                            /\ sessions[i].virtual_desktop_id = d
                            /\ sessions[i].status \in {"active", "paused"}}
            IN  IF rows = {} THEN m[d] = None ELSE m[d] \in rows}

\* the loop over all_desktop_ids; S: [db, map], ids: the desktops not yet
\* visited, taken in the order of get_virtual_desktops()
RECURSIVE ScanLoop(_, _, _, _)
ScanLoop(S, ids, current_id, fcap) ==
    IF ids = {} THEN S
    ELSE LET desktop_id == CHOOSE d \in ids : \A e \in ids : d <= e
             ws     == snapshot_all_desktops(fcap, desktop_id)
             status == IF desktop_id = current_id THEN "active" ELSE "paused"
             S1 == IF S.map[desktop_id] # None
                   THEN LET sid == S.map[desktop_id]
                            D1  == update_session_status(S.db, sid, status)
                        IN  [S EXCEPT !.db =
                                IF ws # <<>>
                                THEN save_snapshot(D1, sid, ws, get_chrome_tabs(D1, sid))
                                ELSE D1]
                   ELSE IF ws # <<>>
                   THEN LET sid == lastrowid(S.db)
                            D1  == update_session_status(
                                       create_session(S.db, desktop_id), sid, status)
                        IN  [db  |-> save_snapshot(D1, sid, ws, get_chrome_tabs(D1, sid)),
                             map |-> [S.map EXCEPT ![desktop_id] = sid]]
                   ELSE S
         IN  ScanLoop(S1, ids \ {desktop_id}, current_id, fcap)

\* the closing loop: sessions of mapped desktops that are not listed go idle
Orphaned(D, map, existing) ==
    [D EXCEPT !.sessions =
        [i \in DOMAIN D.sessions |->
            IF Exists(D, i) /\ \E d \in DesktopIds : map[d] = i /\ d \notin existing
            THEN [D.sessions[i] EXCEPT !.status = "idle"]
            ELSE D.sessions[i]]]

\* the application is launched: __init__ with _load_session_map, then start()
\* with the start-up scan.  Timers and the prompt of an earlier run are gone.
_scan_all_desktops_on_startup(m, fail, fcap) ==
    LET all_desktop_ids == get_all_desktop_ids(fail)
        current_id      == get_current_desktop_id(fail)
        S == ScanLoop([db |-> DB, map |-> m], all_desktop_ids, current_id, fcap)
    IN  /\ m \in _load_session_map
        /\ Len(S.db.sessions) <= MaxSessions
        /\ Commit(Orphaned(S.db, S.map, all_desktop_ids))
        /\ _session_map' = S.map
        /\ _prev_ids' = all_desktop_ids
        /\ _prev_count' = Cardinality(all_desktop_ids)
        /\ _active_id' = current_id
        /\ _suppress_count' = 0
        /\ first_snapshot' = {}
        /\ _pending_desktop_id' = None
        /\ prompt_shown' = FALSE
        /\ create_log' = create_log \o
              [i \in 1..(Len(S.db.sessions) - Len(sessions)) |->
                  S.db.sessions[Len(sessions) + i].virtual_desktop_id]
        /\ out' = Logged(NoOut, S.db)
        /\ UNCHANGED <<os_vars, restore_created, ext_vars>>

Startup ==
    \E m \in _load_session_map, fail, fcap \in BOOLEAN :
        _scan_all_desktops_on_startup(m, fail, fcap)

\* ---- daemon.py: stop ----------------------------------------------------------
\* stop() stops _poll_timer, _snap_timer and _time_timer; the single-shot
\* timers created by register_session are not kept anywhere and stay armed
stop ==
    /\ ~stopped
    /\ stopped' = TRUE
    /\ out' = NoOut
    /\ UNCHANGED <<os_vars, daemon_vars, app_vars, db_vars, create_log,
                   restore_created, saving, core_vars, call_vars, cancelled,
                   create_calls, uncommitted, moved>>

\* ---- main.py / ui/spotlight.py -------------------------------------------
_on_session_named(fcur) ==
    LET desktop_id == IF _pending_desktop_id # None THEN _pending_desktop_id
                      ELSE get_current_desktop_id(fcur)
        session_id == lastrowid(DB)
        D1         == create_session(DB, desktop_id)
    IN  /\ prompt_shown
        /\ Len(sessions) < MaxSessions
        /\ prompt_shown' = FALSE
        /\ create_log' = Append(create_log, desktop_id)
        /\ IF desktop_id # None
           THEN register_session(D1, session_id, desktop_id)
           ELSE /\ Commit(D1)
                /\ UNCHANGED <<_session_map, first_snapshot>>
        /\ _pending_desktop_id' = None
        /\ out' = NoOut
        /\ UNCHANGED <<os_vars, _prev_count, _prev_ids, _active_id, _suppress_count,
                       restore_created, ext_vars>>

SessionNamed == \E fcur \in BOOLEAN : _on_session_named(fcur)

\* observed: the cancelled desktop id is recorded in cancelled, which no
\* handler reads; it is recorded only where a property looks at it
SessionCancelled(observed) ==
    /\ prompt_shown
    /\ prompt_shown' = FALSE
    /\ _pending_desktop_id' = None
    /\ cancelled' = IF observed THEN cancelled \cup ({_pending_desktop_id} \ {None})
                    ELSE cancelled
    /\ out' = NoOut
    /\ UNCHANGED <<os_vars, daemon_vars, db_vars, create_log, restore_created,
                   saving, core_vars, call_vars, stopped, create_calls,
                   uncommitted, moved>>

_on_session_cancelled == SessionCancelled(FALSE)

SessionCancelledObserved == SessionCancelled(TRUE)

\* ---- ui/hud.py, ui/main_window.py ---------------------------------------------
\* the user deletes a session; nothing tells the daemon, so _session_map
\* keeps the entry of the desktop
_on_delete(session_id) ==
    /\ Exists(DB, session_id)
    /\ Commit(delete_session(DB, session_id))
    /\ out' = Logged(NoOut, delete_session(DB, session_id))
    /\ UNCHANGED <<os_vars, daemon_vars, app_vars, create_log, restore_created,
                   ext_vars>>

DeleteSession == \E session_id \in SessionIds : _on_delete(session_id)

\* ---- restore.py -----------------------------------------------------------
\* created = FALSE: create_restore_desktop caught an exception and returned None
restore_session(session_id, created) ==
    LET new_desktop_id == IF created THEN next_desktop ELSE None
        D1 == update_session_status(DB, session_id, "active")
        D2 == IF new_desktop_id # None
              THEN [D1 EXCEPT !.sessions[session_id].virtual_desktop_id =
                                  new_desktop_id]
              ELSE D1
    IN  /\ Exists(DB, session_id)
        /\ created => next_desktop <= MaxDesktops
        /\ IF created
           THEN /\ desktops' = desktops \cup {next_desktop}
                /\ os_current' = next_desktop
                /\ next_desktop' = next_desktop + 1
                /\ restore_created' = restore_created \cup {next_desktop}
                /\ UNCHANGED ext_vars
                /\ UNCHANGED win_desktop
           ELSE UNCHANGED <<os_vars, restore_created, ext_vars>>
        /\ Commit(D2)
        /\ out' = NoOut
        /\ UNCHANGED <<daemon_vars, app_vars, create_log>>

Restore == \E session_id \in SessionIds, created \in BOOLEAN :
               restore_session(session_id, created)

\* ---- restore.py: the launches ------------------------------------------------
\* A URL is <<scheme prefix, rest>>, a path is <<path>>, "no argument" is <<>>.
\* A stored window carries what the launch functions derive from it: folder is
\* the folder hint of an editor title when os.path.isdir accepts it, file is
\* the path _find_office_file returns for an office title (<<>>: none).
TabUrls == {<<"https://", "a">>, <<"https://", "b">>,
            <<"chrome://", "settings">>, <<"about:", "blank">>}

RestoreWindows ==
    {[exe_name |-> "Code.exe",    exe_path |-> "C:/Code.exe",    folder |-> <<"C:/proj">>, file |-> <<>>],
     [exe_name |-> "Code.exe",    exe_path |-> "C:/Code.exe",    folder |-> <<>>,          file |-> <<>>],
     [exe_name |-> "cmd.exe",     exe_path |-> "C:/cmd.exe",     folder |-> <<>>,          file |-> <<>>],
     [exe_name |-> "WINWORD.EXE", exe_path |-> "C:/WINWORD.EXE", folder |-> <<>>,          file |-> <<"C:/a.docx">>],
     [exe_name |-> "NOTEPAD.EXE", exe_path |-> "C:/notepad.exe", folder |-> <<>>,          file |-> <<>>],
     [exe_name |-> "calc.exe",    exe_path |-> "C:/calc.exe",    folder |-> <<>>,          file |-> <<>>],
     [exe_name |-> "gone.exe",    exe_path |-> "C:/gone.exe",    folder |-> <<>>,          file |-> <<>>],
     [exe_name |-> "chrome.exe",  exe_path |-> "C:/chrome.exe",  folder |-> <<>>,          file |-> <<>>]}

\* os.path.exists(exe_path)
path_exists(p) == p # "" /\ p # "C:/gone.exe"

\* str.startswith(prefix)
StartsWith(url, prefix) == url # <<>> /\ url[1] = prefix

OFFICE_APPS == {"winword.exe", "excel.exe", "powerpnt.exe"}
term_exes   == {"windowsterminal.exe", "cmd.exe", "powershell.exe"}
_SKIP_RESTORE_EXES ==
    {"code.exe", "chrome.exe", "firefox.exe", "msedge.exe", "brave.exe",
     "acroRd32.exe", "acrobat.exe", "sumatrapdf.exe",
     "windowsterminal.exe", "cmd.exe", "powershell.exe",
     "explorer.exe", "winword.exe", "excel.exe", "powerpnt.exe"}

\* term_exes.get(exe_lower, "cmd")
TermCmd(exe_lower) ==
    CASE exe_lower = "windowsterminal.exe" -> "wt"
      [] exe_lower = "powershell.exe" -> "powershell"
      [] OTHER -> "cmd"

\* One call of subprocess.Popen, os.startfile or webbrowser.open: the attempt
\* is appended to the log of the restore. The attempts whose ordinal is in
\* fails start nothing: Popen and startfile raise, webbrowser.open returns False.
Attempt(log, via, exe, arg, fails) ==
    Append(log, [via |-> via, exe |-> exe, arg |-> arg,
                 ok  |-> (Len(log) + 1) \notin fails])

\* the last attempt did not raise
Started(log) == log[Len(log)].ok

\* restore_chrome_tabs, the Popen calls inside the try: the first exception
\* leaves the block
RECURSIVE PopenUrls(_, _, _, _)
PopenUrls(log, urls, i, fails) ==
    IF i > Len(urls) THEN log
    ELSE LET tried == Attempt(log, "Popen", "chrome.exe", urls[i], fails) IN
         IF Started(tried) THEN PopenUrls(tried, urls, i + 1, fails) ELSE tried

\* restore_chrome_tabs, the webbrowser.open loop
RECURSIVE OpenUrls(_, _, _, _)
OpenUrls(log, urls, i, fails) ==
    IF i > Len(urls) THEN log
    ELSE OpenUrls(Attempt(log, "webbrowser.open", "", urls[i], fails),
                  urls, i + 1, fails)

\* restore_chrome_tabs that returns from the except block instead of falling
\* through to the webbrowser loop
restore_chrome_tabs_NoFallback(log, tabs, chrome_exe, fails) ==
    LET urls  == SelectSeq([i \in DOMAIN tabs |-> tabs[i].url],
                           LAMBDA u : /\ u # <<>>
                                      /\ ~StartsWith(u, "chrome://")
                                      /\ ~StartsWith(u, "about:"))
        tried == PopenUrls(log, urls, 1, fails)
    IN  IF tabs = <<>> \/ urls = <<>> THEN [log |-> log, count |-> 0]
        ELSE IF chrome_exe THEN [log |-> tried, count |-> Len(urls)]
        ELSE [log |-> OpenUrls(log, urls, 1, fails), count |-> Len(urls)]

\* chrome_exe: one of chrome_paths exists
restore_chrome_tabs(log, tabs, chrome_exe, fails) ==
    LET urls  == SelectSeq([i \in DOMAIN tabs |-> tabs[i].url],
                           LAMBDA u : /\ u # <<>>
                                      /\ ~StartsWith(u, "chrome://")
                                      /\ ~StartsWith(u, "about:"))
        tried == PopenUrls(log, urls, 1, fails)
    IN  IF tabs = <<>> \/ urls = <<>> THEN [log |-> log, count |-> 0]
        ELSE IF chrome_exe /\ Started(tried)
             THEN [log |-> tried, count |-> Len(urls)]
        ELSE [log   |-> OpenUrls(IF chrome_exe THEN tried ELSE log, urls, 1, fails),
              count |-> Len(urls)]

RECURSIVE CodeLoop(_, _, _, _, _)
CodeLoop(log, opened, code_windows, i, fails) ==
    IF i > Len(code_windows) THEN [log |-> log, count |-> opened]
    ELSE LET w      == code_windows[i]
             hinted == Attempt(log, "Popen", "code", w.folder, fails)
             from   == IF w.folder # <<>> THEN hinted ELSE log
             plain  == Attempt(from, "Popen", "code", <<>>, fails)
         IN  IF w.folder # <<>> /\ Started(hinted)
             THEN CodeLoop(hinted, opened + 1, code_windows, i + 1, fails)
             ELSE CodeLoop(plain, IF Started(plain) THEN opened + 1 ELSE opened,
                           code_windows, i + 1, fails)

restore_vscode_windows(log, ws, fails) ==
    CodeLoop(log, 0, SelectSeq(ws, LAMBDA w : Lower(w.exe_name) = "code.exe"),
             1, fails)

RECURSIVE OfficeLoop(_, _, _, _, _, _)
OfficeLoop(log, opened, opened_paths, office_windows, i, fails) ==
    IF i > Len(office_windows) THEN [log |-> log, count |-> opened]
    ELSE LET file_path == office_windows[i].file
             started   == Attempt(log, "startfile", "", file_path, fails)
             fallback  == Attempt(started, "Popen", office_windows[i].exe_name,
                                  file_path, fails)
         IN  IF file_path = <<>> \/ file_path \in opened_paths
             THEN OfficeLoop(log, opened, opened_paths, office_windows, i + 1, fails)
             ELSE IF Started(started)
             THEN OfficeLoop(started, opened + 1, opened_paths \cup {file_path},
                             office_windows, i + 1, fails)
             ELSE IF Started(fallback)
             THEN OfficeLoop(fallback, opened + 1, opened_paths \cup {file_path},
                             office_windows, i + 1, fails)
             ELSE OfficeLoop(fallback, opened, opened_paths, office_windows,
                             i + 1, fails)

restore_office_documents(log, ws, fails) ==
    OfficeLoop(log, 0, {}, SelectSeq(ws, LAMBDA w : Lower(w.exe_name) \in OFFICE_APPS),
               1, fails)

RECURSIVE TerminalLoop(_, _, _, _, _, _)
TerminalLoop(log, opened, seen, terminal_windows, i, fails) ==
    IF i > Len(terminal_windows) THEN [log |-> log, count |-> opened]
    ELSE LET exe_lower == Lower(terminal_windows[i].exe_name)
             tried     == Attempt(log, "Popen", TermCmd(exe_lower), <<>>, fails)
         IN  IF exe_lower \in seen
             THEN TerminalLoop(log, opened, seen, terminal_windows, i + 1, fails)
             ELSE IF Started(tried)
             THEN TerminalLoop(tried, opened + 1, seen \cup {exe_lower},
                               terminal_windows, i + 1, fails)
             ELSE TerminalLoop(tried, opened, seen, terminal_windows, i + 1, fails)

restore_terminals(log, ws, fails) ==
    TerminalLoop(log, 0, {}, SelectSeq(ws, LAMBDA w : Lower(w.exe_name) \in term_exes),
                 1, fails)

RECURSIVE OtherLoop(_, _, _, _, _, _)
OtherLoop(log, opened, seen_exes, ws, i, fails) ==
    IF i > Len(ws) THEN [log |-> log, count |-> opened]
    ELSE LET exe_name == Lower(ws[i].exe_name)
             exe_path == ws[i].exe_path
             tried    == Attempt(log, "Popen", exe_path, <<>>, fails)
         IN  IF \/ exe_name \in _SKIP_RESTORE_EXES
                \/ exe_name \in seen_exes
                \/ ~path_exists(exe_path)
             THEN OtherLoop(log, opened, seen_exes, ws, i + 1, fails)
             ELSE IF Started(tried)
             THEN OtherLoop(tried, opened + 1, seen_exes \cup {exe_name}, ws,
                            i + 1, fails)
             ELSE OtherLoop(tried, opened, seen_exes, ws, i + 1, fails)

restore_other_apps(log, ws, fails) == OtherLoop(log, 0, {}, ws, 1, fails)

\* restore_session, the five launch calls and the returned dict; log is what
\* the call launched, in order
restore_launches(tabs, ws, chrome_exe, fails) ==
    LET tabs_opened     == restore_chrome_tabs(<<>>, tabs, chrome_exe, fails)
        vscode_opened   == restore_vscode_windows(tabs_opened.log, ws, fails)
        office_opened   == restore_office_documents(vscode_opened.log, ws, fails)
        terminal_opened == restore_terminals(office_opened.log, ws, fails)
        other_opened    == restore_other_apps(terminal_opened.log, ws, fails)
    IN  [fn        |-> "restore_session",
         tabs      |-> tabs_opened.count,
         vscode    |-> vscode_opened.count,
         office    |-> office_opened.count,
         terminals |-> terminal_opened.count,
         other     |-> other_opened.count,
         total     |-> tabs_opened.count + vscode_opened.count + office_opened.count
                         + terminal_opened.count + other_opened.count,
         log       |-> other_opened.log]

\* the launch part of one restore_session call on the stored tabs and windows
\* drawn at the start
RestoreLaunches ==
    /\ args.fn = "restore_session" /\ ret.fn = "none"
    /\ ret' = restore_launches(args.tabs, args.windows, args.chrome_exe, args.fails)
    /\ UNCHANGED <<os_vars, daemon_vars, app_vars, db_vars, out, create_log,
                   restore_created, saving, core_vars, args, stopped, cancelled,
                   create_calls, uncommitted, moved>>

\* ---- core/launcher.py --------------------------------------------------------
\* A string is the sequence of its parts: "https://" + url is <<"https://">> \o url.
LauncherItems ==
    {[type |-> "file", path_or_url |-> <<"C:/a.docx">>,        label |-> "a.docx"],
     [type |-> "file", path_or_url |-> <<"C:/gone.docx">>,     label |-> "gone.docx"],
     [type |-> "url",  path_or_url |-> <<"https://", "a">>,    label |-> "a"],
     [type |-> "url",  path_or_url |-> <<"example.com">>,      label |-> "example"],
     [type |-> "app",  path_or_url |-> <<"C:/notepad.exe">>,   label |-> "notepad"],
     [type |-> "folder", path_or_url |-> <<"C:/proj">>,        label |-> "proj"],
     [label |-> "bare"]}

\* os.path.exists on the paths of the items
os_path_exists(path) == path \in {<<"C:/a.docx">>, <<"C:/notepad.exe">>, <<"C:/proj">>}

\* Each opener returns (success, error_message) and the log of the launch
\* calls made so far; n is the position of the item in open_all's list.
Launch(log, n, via, target, fails) ==
    Append(log, [item |-> n, via |-> via, target |-> target,
                 ok   |-> (Len(log) + 1) \notin fails])

open_file(log, n, path, fails) ==
    LET tried == Launch(log, n, "startfile", path, fails) IN
    IF ~os_path_exists(path)
    THEN [success |-> FALSE, err |-> "File not found", log |-> log]
    ELSE IF Started(tried) THEN [success |-> TRUE, err |-> "", log |-> tried]
    ELSE [success |-> FALSE, err |-> "startfile raised", log |-> tried]

\* browser: _find_browser() found Chrome or Edge. A webbrowser.open that
\* starts nothing returns False, which open_url does not look at.
open_url(log, n, path_or_url, browser, fails) ==
    LET url   == IF \/ StartsWith(path_or_url, "http://")
                    \/ StartsWith(path_or_url, "https://")
                    \/ StartsWith(path_or_url, "file://")
                 THEN path_or_url ELSE <<"https://">> \o path_or_url
        tried == Launch(log, n, IF browser THEN "Popen" ELSE "webbrowser.open",
                        url, fails)
    IN  IF browser /\ ~Started(tried)
        THEN [success |-> FALSE, err |-> "Popen raised", log |-> tried]
        ELSE [success |-> TRUE, err |-> "", log |-> tried]

open_app(log, n, exe_path, fails) ==
    LET tried == Launch(log, n, "Popen", exe_path, fails) IN
    IF ~os_path_exists(exe_path)
    THEN [success |-> FALSE, err |-> "Executable not found", log |-> log]
    ELSE IF Started(tried) THEN [success |-> TRUE, err |-> "", log |-> tried]
    ELSE [success |-> FALSE, err |-> "Popen raised", log |-> tried]

open_item(log, n, item, browser, fails) ==
    LET item_type   == Get(item, "type", "")
        path_or_url == Get(item, "path_or_url", <<>>)
    IN  CASE item_type = "file" -> open_file(log, n, path_or_url, fails)
          [] item_type = "url"  -> open_url(log, n, path_or_url, browser, fails)
          [] item_type = "app"  -> open_app(log, n, path_or_url, fails)
          [] OTHER -> [success |-> FALSE, err |-> "Unknown item type", log |-> log]

\* open_all's loop that leaves at the first item that fails
RECURSIVE OpenAllLoop_StopsAtFailure(_, _, _, _, _)
OpenAllLoop_StopsAtFailure(results, items, i, browser, fails) ==
    IF i > Len(items) THEN results
    ELSE LET r == open_item(results.log, i, items[i], browser, fails) IN
         IF r.success
         THEN OpenAllLoop_StopsAtFailure(
                  [results EXCEPT !.opened = @ + 1, !.log = r.log,
                                  !.calls = Append(@, items[i]),
                                  !.success = Append(@, TRUE)],
                  items, i + 1, browser, fails)
         ELSE [results EXCEPT !.failed = @ + 1, !.log = r.log,
                              !.errors = Append(@, <<Get(items[i], "label", "?"), r.err>>),
                              !.calls = Append(@, items[i]),
                              !.success = Append(@, FALSE)]

\* open_all's loop; calls and success list the open_item calls and what they
\* returned, log the launches
RECURSIVE OpenAllLoop(_, _, _, _, _)
OpenAllLoop(results, items, i, browser, fails) ==
    IF i > Len(items) THEN results
    ELSE LET r == open_item(results.log, i, items[i], browser, fails) IN
         OpenAllLoop(
             IF r.success
             THEN [results EXCEPT !.opened = @ + 1, !.log = r.log,
                                  !.calls = Append(@, items[i]),
                                  !.success = Append(@, TRUE)]
             ELSE [results EXCEPT !.failed = @ + 1, !.log = r.log,
                                  !.errors = Append(@, <<Get(items[i], "label", "?"), r.err>>),
                                  !.calls = Append(@, items[i]),
                                  !.success = Append(@, FALSE)],
             items, i + 1, browser, fails)

open_all(items, browser, fails) ==
    OpenAllLoop([fn |-> "open_all", total |-> Len(items), opened |-> 0,
                 failed |-> 0, errors |-> <<>>,
                 calls |-> <<>>, success |-> <<>>, log |-> <<>>],
                items, 1, browser, fails)

\* one launcher.open_all call on the items drawn at the start
OpenAll ==
    /\ args.fn = "open_all" /\ ret.fn = "none"
    /\ ret' = open_all(args.items, args.browser, args.fails)
    /\ UNCHANGED <<os_vars, daemon_vars, app_vars, db_vars, out, create_log,
                   restore_created, saving, core_vars, args, stopped, cancelled,
                   create_calls, uncommitted, moved>>

\* ---- native_host/host.py --------------------------------------------------
handle_tabs_snapshot(session_id, tabs) ==
    /\ session_id \in DOMAIN sessions
    /\ Commit(save_chrome_tabs(DB, session_id, tabs))
    /\ out' = NoOut
    /\ UNCHANGED <<os_vars, daemon_vars, app_vars, create_log, restore_created, ext_vars>>

HostTabsSnapshot ==
    \E session_id \in SessionIds, tabs \in {<<>>, <<[id |-> 7, url |-> "https://a",
                                                     favIconUrl |-> "a.ico"]>>} :
        handle_tabs_snapshot(session_id, tabs)

HostSetActiveSession ==
    \E session_id \in SessionIds :
        /\ session_id \in DOMAIN sessions
        /\ Commit(update_session_status(DB, session_id, "active"))
        /\ out' = NoOut
        /\ UNCHANGED <<os_vars, daemon_vars, app_vars, create_log, restore_created, ext_vars>>

\* ---- daemon.py: a capture write next to the native host ---------------------
\* The native host is a process of its own on the same database file, and
\* every db.py function is a transaction of its own, so the host's writes can
\* fall between the statements of _save_snapshot_safe.  force_snapshot is
\* split where _save_snapshot_safe has read the stored tabs.
ForceSnapshotBegin(fcur, fail) ==
    LET current == get_current_desktop_id(fcur) IN
    /\ saving.session_id = None
    /\ current # None /\ InMap(current)
    /\ _session_map[current] \in DOMAIN sessions
    /\ saving' = [session_id |-> _session_map[current],
                  windows    |-> snapshot_all_desktops(fail, current),
                  tabs       |-> get_chrome_tabs(DB, _session_map[current])]
    /\ out' = NoOut
    /\ UNCHANGED <<os_vars, daemon_vars, app_vars, db_vars, create_log,
                   restore_created, core_vars, call_vars, stopped, cancelled,
                   create_calls, uncommitted, moved>>

\* the rest of _save_snapshot_safe, with the tabs read earlier
ForceSnapshotEnd ==
    /\ saving.session_id # None
    /\ saving' = NotSaving
    /\ Commit(SaveWith(DB, saving.session_id, saving.windows, saving.tabs))
    /\ out' = Logged(SnapshotOut(DB, saving.session_id, saving.windows),
                     SaveWith(DB, saving.session_id, saving.windows, saving.tabs))
    /\ UNCHANGED <<os_vars, daemon_vars, app_vars, create_log, restore_created,
                   core_vars, call_vars, stopped, cancelled,
                   create_calls, uncommitted, moved>>

ForceSnapshotSplit ==
    \/ \E fcur, fail \in BOOLEAN : ForceSnapshotBegin(fcur, fail)
    \/ ForceSnapshotEnd

\* ---- src/src/core: the threaded daemon -----------------------------------
\* Time is counted in units of 250 ms; time.time() is far above the debounce
\* window when the daemon starts.  DesktopWatcher's get_all_desktop_ids and
\* get_current_desktop_id fall back to [] and None like those of snapshot.py.
DEBOUNCE == 2

HotkeyThreads == 1..MaxHotkeyThreads

NotStarted == [pc |-> "none", now |-> 0]

\* the locked block of _handle_new_desktop followed by the callbacks: TRUE
\* when the naming request is emitted
Emits(desktop_id) ==
    _active[desktop_id] = None /\ desktop_id \notin _pending_prompts

_handle_new_desktop(desktop_id) ==
    IF Emits(desktop_id)
    THEN /\ _pending_prompts' = _pending_prompts \cup {desktop_id}
         /\ requests' = [requests EXCEPT ![desktop_id] = @ + 1]
    ELSE UNCHANGED <<_pending_prompts, requests>>

CoreFrame == UNCHANGED <<os_vars, daemon_vars, app_vars, db_vars, out, create_log,
                         restore_created, saving, call_vars, stopped, cancelled,
                         create_calls, uncommitted, moved>>

\* DesktopWatcher._tick, up to the loop over the new desktops
WatcherTick(fail) ==
    LET all_ids == get_all_desktop_ids(fail) IN
    /\ watcher.pc = "sleep"
    /\ watcher' = [pc |-> "callbacks", all_ids |-> all_ids,
                   new_desktops |-> all_ids \ _known_desktops]
    /\ UNCHANGED <<_known_desktops, _active, _pending_prompts, _last_hotkey_time,
                   core_sessions, clock, hotkey_threads, creating, requests>>
    /\ CoreFrame

\* one iteration of the loop: the callback registered by Daemon.start
WatcherCallback(desk_id) ==
    /\ watcher.pc = "callbacks"
    /\ desk_id \in watcher.new_desktops
    /\ _handle_new_desktop(desk_id)
    /\ watcher' = [watcher EXCEPT !.new_desktops = @ \ {desk_id}]
    /\ UNCHANGED <<_known_desktops, _active, _last_hotkey_time, core_sessions,
                   clock, hotkey_threads, creating>>
    /\ CoreFrame

\* the end of _tick
WatcherDone ==
    /\ watcher.pc = "callbacks"
    /\ watcher.new_desktops = {}
    /\ _known_desktops' = watcher.all_ids
    /\ watcher' = [pc |-> "sleep", all_ids |-> {}, new_desktops |-> {}]
    /\ UNCHANGED <<_active, _pending_prompts, _last_hotkey_time, core_sessions,
                   clock, hotkey_threads, creating, requests>>
    /\ CoreFrame

Watcher ==
    \/ \E fail \in BOOLEAN : WatcherTick(fail)
    \/ \E desk_id \in DesktopIds : WatcherCallback(desk_id)
    \/ WatcherDone

\* HotkeyManager._fire starts a thread for the handler; the handler reads the
\* clock.  A thread that has returned keeps its outcome in pc until the slot
\* is used for the next key press.
HotkeyInvoke(h) ==
    /\ hotkey_threads[h].pc \in {"none", "ignored", "no_desktop", "reached"}
    /\ hotkey_threads' = [hotkey_threads EXCEPT ![h] = [pc |-> "check", now |-> clock]]
    /\ UNCHANGED <<_known_desktops, watcher, _active, _pending_prompts,
                   _last_hotkey_time, core_sessions, clock, creating, requests>>
    /\ CoreFrame

\* the comparison with _last_hotkey_time
Debounced(now) == now - _last_hotkey_time < DEBOUNCE

HotkeyCheck(h) ==
    /\ hotkey_threads[h].pc = "check"
    /\ hotkey_threads' = [hotkey_threads EXCEPT ![h].pc =
          IF Debounced(hotkey_threads[h].now) THEN "ignored" ELSE "store"]
    /\ UNCHANGED <<_known_desktops, watcher, _active, _pending_prompts,
                   _last_hotkey_time, core_sessions, clock, creating, requests>>
    /\ CoreFrame

\* the assignment to _last_hotkey_time
HotkeyStore(h) ==
    /\ hotkey_threads[h].pc = "store"
    /\ _last_hotkey_time' = hotkey_threads[h].now
    /\ hotkey_threads' = [hotkey_threads EXCEPT ![h].pc = "handle"]
    /\ UNCHANGED <<_known_desktops, watcher, _active, _pending_prompts,
                   core_sessions, clock, creating, requests>>
    /\ CoreFrame

\* the rest of the handler: the current desktop, then _handle_new_desktop
HotkeyHandle(h, fail) ==
    LET desktop_id == get_current_desktop_id(fail) IN
    /\ hotkey_threads[h].pc = "handle"
    /\ IF desktop_id = None
       THEN /\ hotkey_threads' = [hotkey_threads EXCEPT ![h].pc = "no_desktop"]
            /\ UNCHANGED <<_pending_prompts, requests>>
       ELSE /\ hotkey_threads' = [hotkey_threads EXCEPT ![h].pc = "reached"]
            /\ _handle_new_desktop(desktop_id)
    /\ UNCHANGED <<_known_desktops, watcher, _active, _last_hotkey_time,
                   core_sessions, clock, creating>>
    /\ CoreFrame

_handle_hotkey_new_session ==
    \E h \in HotkeyThreads :
        \/ HotkeyInvoke(h)
        \/ HotkeyCheck(h)
        \/ HotkeyStore(h)
        \/ \E fail \in BOOLEAN : HotkeyHandle(h, fail)

\* Daemon.create_session, the first locked block.  The caller answers a naming
\* request for desktop_id.
CreateSessionBegin(desktop_id) ==
    /\ creating = None
    /\ requests[desktop_id] > 0
    /\ requests' = [requests EXCEPT ![desktop_id] = @ - 1]
    /\ _pending_prompts' = _pending_prompts \ {desktop_id}
    /\ creating' = IF _active[desktop_id] # None THEN None ELSE desktop_id
    /\ UNCHANGED <<_known_desktops, watcher, _active, _last_hotkey_time,
                   core_sessions, clock, hotkey_threads>>
    /\ CoreFrame

\* Database.create_session of src/src/db/database.py: the row of the desktop
RowOf(rows, desktop_id) ==
    IF \E i \in DOMAIN rows : rows[i] = desktop_id
    THEN CHOOSE i \in DOMAIN rows : rows[i] = desktop_id
    ELSE Len(rows) + 1

\* Daemon.create_session, after the lock is released: the insert, then the
\* second locked block.  raised: the database raised and the call re-raises
CreateSessionEnd(raised) ==
    /\ creating # None
    /\ creating' = None
    /\ IF raised
       THEN UNCHANGED <<core_sessions, _active>>
       ELSE /\ core_sessions' =
                  IF RowOf(core_sessions, creating) \in DOMAIN core_sessions
                  THEN core_sessions ELSE Append(core_sessions, creating)
            /\ _active' = [_active EXCEPT ![creating] = RowOf(core_sessions, creating)]
    /\ UNCHANGED <<_known_desktops, watcher, _pending_prompts, _last_hotkey_time,
                   clock, hotkey_threads, requests>>
    /\ CoreFrame

CoreCreateSession ==
    \/ \E desktop_id \in DesktopIds : CreateSessionBegin(desktop_id)
    \/ \E raised \in BOOLEAN : CreateSessionEnd(raised)

\* ---- src/src/core/daemon.py: create_session on several threads ---------------
\* self._lock covers the check of _active and, separately, the final store.
\* Database.create_session runs between them without the lock, on the one
\* connection that all threads share (check_same_thread=False), so a commit or
\* a rollback made by one thread ends the open transaction of every thread.
CallFrame == UNCHANGED <<os_vars, daemon_vars, app_vars, db_vars, out, create_log,
                         restore_created, saving, call_vars, stopped, cancelled,
                         _known_desktops, watcher, _last_hotkey_time, clock,
                         hotkey_threads, creating, requests, moved>>

\* the first locked block: discard the pending prompt, return a known session
CallEnter(t, desktop_id) ==
    /\ create_calls[t].pc = "out"
    /\ _pending_prompts' = _pending_prompts \ {desktop_id}
    /\ create_calls' = [create_calls EXCEPT ![t] =
          IF _active[desktop_id] # None
          THEN [pc |-> "returned", desktop_id |-> desktop_id,
                id |-> _active[desktop_id]]
          ELSE [pc |-> "select", desktop_id |-> desktop_id, id |-> None]]
    /\ UNCHANGED <<_active, core_sessions, uncommitted>>
    /\ CallFrame

\* SELECT * FROM sessions WHERE desktop_id = ?; a row that is found is
\* returned, and leaving the transaction context commits
CallSelect(t) ==
    LET c   == create_calls[t]
        row == RowOf(core_sessions, c.desktop_id)
    IN  /\ c.pc = "select"
        /\ IF row \in DOMAIN core_sessions
           THEN /\ create_calls' = [create_calls EXCEPT ![t].pc = "store",
                                                        ![t].id = row]
                /\ uncommitted' = 0
           ELSE /\ create_calls' = [create_calls EXCEPT ![t].pc = "insert"]
                /\ UNCHANGED uncommitted
        /\ UNCHANGED <<_active, core_sessions, _pending_prompts>>
        /\ CallFrame

\* INSERT INTO sessions; desktop_id is UNIQUE.  On a violation the transaction
\* context rolls back and every level re-raises; otherwise session.id is
\* cur.lastrowid
CallInsert(t) ==
    LET c == create_calls[t] IN
    /\ c.pc = "insert"
    /\ IF RowOf(core_sessions, c.desktop_id) \in DOMAIN core_sessions
       THEN /\ core_sessions' = SubSeq(core_sessions, 1,
                                       Len(core_sessions) - uncommitted)
            /\ uncommitted' = 0
            /\ create_calls' = [create_calls EXCEPT ![t].pc = "raised"]
       ELSE /\ core_sessions' = Append(core_sessions, c.desktop_id)
            /\ uncommitted' = uncommitted + 1
            /\ create_calls' = [create_calls EXCEPT ![t].pc = "commit",
                                                    ![t].id = Len(core_sessions) + 1]
    /\ UNCHANGED <<_active, _pending_prompts>>
    /\ CallFrame

\* leaving the transaction context: self._conn.commit()
CallCommit(t) ==
    /\ create_calls[t].pc = "commit"
    /\ uncommitted' = 0
    /\ create_calls' = [create_calls EXCEPT ![t].pc = "store"]
    /\ UNCHANGED <<_active, core_sessions, _pending_prompts>>
    /\ CallFrame

\* the second locked block: self._active[desktop_id] = session; return session
CallStore(t) ==
    LET c == create_calls[t] IN
    /\ c.pc = "store"
    /\ _active' = [_active EXCEPT ![c.desktop_id] = c.id]
    /\ create_calls' = [create_calls EXCEPT ![t].pc = "returned"]
    /\ UNCHANGED <<core_sessions, uncommitted, _pending_prompts>>
    /\ CallFrame

cancel_session(desktop_id) ==
    /\ creating = None
    /\ requests[desktop_id] > 0
    /\ requests' = [requests EXCEPT ![desktop_id] = @ - 1]
    /\ _pending_prompts' = _pending_prompts \ {desktop_id}
    /\ UNCHANGED <<_known_desktops, watcher, _active, _last_hotkey_time,
                   core_sessions, clock, hotkey_threads, creating>>
    /\ CoreFrame

CancelSession == \E desktop_id \in DesktopIds : cancel_session(desktop_id)

\* 250 ms pass
ClockTick ==
    /\ clock < MaxClock
    /\ clock' = clock + 1
    /\ UNCHANGED <<_known_desktops, watcher, _active, _pending_prompts,
                   _last_hotkey_time, core_sessions, hotkey_threads, creating,
                   requests>>
    /\ CoreFrame

\* ---- the operating system -------------------------------------------------
EnvFrame == /\ out' = NoOut
            /\ UNCHANGED <<daemon_vars, app_vars, db_vars, create_log,
                           restore_created, ext_vars>>

\* the user adds a desktop; focus moves to it or stays
CreateDesktopUpTo(limit) ==
    \E focus \in BOOLEAN :
        /\ next_desktop <= limit
        /\ desktops' = desktops \cup {next_desktop}
        /\ next_desktop' = next_desktop + 1
        /\ os_current' = IF focus THEN next_desktop ELSE os_current
        /\ UNCHANGED win_desktop
        /\ EnvFrame

CreateDesktop == CreateDesktopUpTo(MaxDesktops)

\* the user closes a desktop; its windows (and focus) move to a neighbour
\* observed: the windows the closing moves are recorded in moved, which no
\* handler reads; they are recorded only where a property looks at them
RemoveDesktopTo(observed) ==
    \E d \in desktops, to \in desktops :
        /\ to # d
        /\ desktops' = desktops \ {d}
        /\ os_current' = IF os_current = d THEN to ELSE os_current
        /\ win_desktop' = [h \in Hwnds |->
                             IF win_desktop[h] = d THEN to ELSE win_desktop[h]]
        /\ moved' = IF observed
                    THEN [h \in Hwnds |-> IF win_desktop[h] = d THEN d ELSE moved[h]]
                    ELSE moved
        /\ UNCHANGED next_desktop
        /\ out' = NoOut
        /\ UNCHANGED <<daemon_vars, app_vars, db_vars, create_log, restore_created,
                       saving, core_vars, call_vars, stopped, cancelled,
                       create_calls, uncommitted>>

RemoveDesktop == RemoveDesktopTo(FALSE)

RemoveDesktopObserved == RemoveDesktopTo(TRUE)

SwitchDesktop ==
    \E d \in desktops :
        /\ d # os_current
        /\ os_current' = d
        /\ UNCHANGED <<desktops, next_desktop, win_desktop>>
        /\ EnvFrame

OpenWindowUpTo(limit) ==
    \E h \in 1..limit :
        /\ win_desktop[h] = None
        /\ win_desktop' = [win_desktop EXCEPT ![h] = os_current]
        /\ UNCHANGED <<desktops, os_current, next_desktop>>
        /\ EnvFrame

OpenWindow == OpenWindowUpTo(MaxWindows)

CloseWindow ==
    \E h \in Hwnds :
        /\ win_desktop[h] # None
        /\ win_desktop' = [win_desktop EXCEPT ![h] = None]
        /\ UNCHANGED <<desktops, os_current, next_desktop>>
        /\ EnvFrame

\* ---- specification ----------------------------------------------------------
\* the daemon, the database and the operating system after construction
InitDaemon ==
    /\ desktops = {1} /\ os_current = 1 /\ next_desktop = 2
    /\ win_desktop = [h \in Hwnds |-> None]
    /\ _prev_count = 1 /\ _prev_ids = {1} /\ _active_id = 1
    /\ _session_map = [d \in DesktopIds |-> None]
    /\ _suppress_count = 0
    /\ first_snapshot = {}
    /\ _pending_desktop_id = None /\ prompt_shown = FALSE
    /\ sessions = <<>> /\ windows = <<>> /\ chrome_tabs = <<>>
    /\ out = NoOut
    /\ create_log = <<>>
    /\ restore_created = {}
    /\ saving = NotSaving
    /\ _known_desktops = {1}
    /\ watcher = [pc |-> "sleep", all_ids |-> {}, new_desktops |-> {}]
    /\ _active = [d \in DesktopIds |-> None]
    /\ _pending_prompts = {}
    /\ _last_hotkey_time = 0
    /\ core_sessions = <<>>
    /\ clock = DEBOUNCE
    /\ hotkey_threads = [h \in HotkeyThreads |-> NotStarted]
    /\ creating = None
    /\ requests = [d \in DesktopIds |-> 0]
    /\ stopped = FALSE
    /\ cancelled = {}
    /\ create_calls = [t \in CallThreads |-> NotCalling]
    /\ uncommitted = 0
    /\ moved = [h \in Hwnds |-> None]

Init == InitDaemon /\ args = NoCall /\ ret = NoCall

\* desktop lifecycle: topology changes, naming, restore, native host
Next ==
    \/ Poll
    \/ suppress_next_new_desktop
    \/ SessionNamed
    \/ _on_session_cancelled
    \/ Restore
    \/ HostSetActiveSession
    \/ CreateDesktop
    \/ RemoveDesktop
    \/ SwitchDesktop

Spec == Init /\ [][Next]_vars

CreateDesktopSmall == CreateDesktopUpTo(MaxDesktopsSmall)

\* the topology watcher alone: polling, the suppress counter and the prompt
NextTopology ==
    \/ Poll
    \/ suppress_next_new_desktop
    \/ SessionNamed
    \/ _on_session_cancelled
    \/ CreateDesktopSmall
    \/ RemoveDesktop
    \/ SwitchDesktop

SpecTopology == Init /\ [][NextTopology]_vars

\* window capture: polling with a working desktop service, the snapshot
\* timers and the windows of the operating system
PollCapture == \E fcap \in BOOLEAN : PollTick(FALSE, fcap)

OpenCaptureWindow == OpenWindowUpTo(MaxCaptureWindows)

NextCapture ==
    \/ PollCapture
    \/ SnapshotAll
    \/ DelayedSnapshot
    \/ ForceSnapshot
    \/ SessionNamed
    \/ CreateDesktopSmall
    \/ RemoveDesktop
    \/ SwitchDesktop
    \/ OpenCaptureWindow
    \/ CloseWindow

SpecCapture == Init /\ [][NextCapture]_vars

\* desktop removal: _poll with its switch-time snapshot and its salvage, over
\* every move of the user; the snapshot timers do not fire
NextSalvage ==
    \/ PollCapture
    \/ SessionNamed
    \/ CreateDesktopSmall
    \/ RemoveDesktop
    \/ SwitchDesktop
    \/ OpenWindow
    \/ CloseWindow

SpecSalvage == Init /\ [][NextSalvage]_vars

\* window capture together with the writers of the chrome_tabs table
NextStore ==
    \/ NextCapture
    \/ HostTabsSnapshot
    \/ ReceiveChromeTabs

SpecStore == Init /\ [][NextStore]_vars

\* relaunching the application amid desktop and window changes
NextStartup ==
    \/ Startup
    \/ Poll
    \/ SessionNamed
    \/ CreateDesktopSmall
    \/ RemoveDesktop
    \/ SwitchDesktop
    \/ OpenCaptureWindow
    \/ CloseWindow

SpecStartup == Init /\ [][NextStartup]_vars

\* restore while desktop ids are left in the narrow specifications
RestoreSmall ==
    \E session_id \in SessionIds, created \in BOOLEAN :
        /\ created => next_desktop <= MaxDesktopsSmall
        /\ restore_session(session_id, created)

\* time tracking next to the writers of the sessions table: switches and
\* removals seen by _poll, naming, restore, the native host, the periodic
\* snapshot
NextTime ==
    \/ _tick_time
    \/ PollCapture
    \/ SnapshotAll
    \/ SessionNamed
    \/ RestoreSmall
    \/ HostSetActiveSession
    \/ HostTabsSnapshot
    \/ CreateDesktopSmall
    \/ RemoveDesktop
    \/ SwitchDesktop

SpecTime == Init /\ [][NextTime]_vars

\* polling while the desktop service or the database fail
NextFaults ==
    \/ Poll
    \/ PollDbDown
    \/ SessionNamed
    \/ _on_session_cancelled
    \/ CreateDesktopSmall
    \/ RemoveDesktop
    \/ SwitchDesktop

SpecFaults == Init /\ [][NextFaults]_vars

\* the other handlers of the Qt thread run only between two handlers
PollWhenIdle == saving.session_id = None /\ PollCapture

SessionNamedWhenIdle == saving.session_id = None /\ \E fcur \in BOOLEAN : _on_session_named(fcur)

\* the daemon's capture write and the native host on one database
NextWriters ==
    \/ ForceSnapshotSplit
    \/ HostTabsSnapshot
    \/ PollWhenIdle
    \/ SessionNamedWhenIdle
    \/ CreateDesktopSmall
    \/ SwitchDesktop
    \/ OpenCaptureWindow
    \/ CloseWindow

SpecWriters == Init /\ [][NextWriters]_vars

\* capture writes on demand while the database may fail
NextAtomicity ==
    \/ ForceSnapshot
    \/ ForceSnapshotRaising
    \/ HostTabsSnapshot
    \/ PollCapture
    \/ SessionNamed
    \/ CreateDesktopSmall
    \/ SwitchDesktop
    \/ OpenCaptureWindow
    \/ CloseWindow

SpecAtomicity == Init /\ [][NextAtomicity]_vars

\* capture writes of one session at a time, with tabs stored by the native host
NextOutcome ==
    \/ ForceSnapshot
    \/ DelayedSnapshot
    \/ HostTabsSnapshot
    \/ PollCapture
    \/ SessionNamed
    \/ CreateDesktopSmall
    \/ SwitchDesktop
    \/ OpenCaptureWindow

SpecOutcome == Init /\ [][NextOutcome]_vars

\* sessions are deleted while the daemon and the native host keep writing
NextDelete ==
    \/ DeleteSession
    \/ PollCapture
    \/ SnapshotAll
    \/ ForceSnapshot
    \/ HostTabsSnapshot
    \/ SessionNamed
    \/ CreateDesktopSmall
    \/ RemoveDesktop
    \/ SwitchDesktop
    \/ OpenCaptureWindow

SpecDelete == Init /\ [][NextDelete]_vars

\* the threaded daemon's naming requests: the watcher thread, the hotkey
\* handler threads and the caller of create_session / cancel_session
NextPrompts ==
    \/ Watcher
    \/ _handle_hotkey_new_session
    \/ CoreCreateSession
    \/ CancelSession
    \/ CreateDesktopSmall
    \/ RemoveDesktop
    \/ SwitchDesktop

SpecPrompts == Init /\ [][NextPrompts]_vars

\* the hotkey handlers on their threads, with the clock
NextHotkeys ==
    \/ _handle_hotkey_new_session
    \/ ClockTick
    \/ CoreCreateSession
    \/ CancelSession
    \/ CreateDesktopSmall
    \/ SwitchDesktop

SpecHotkeys == Init /\ [][NextHotkeys]_vars

\* sequences over S of length n
Tuples(S, n) == [1..n -> S]

\* the stored tabs and windows of the restored session, whether Chrome is
\* installed, and the launches the operating system refuses
InitRestore ==
    /\ InitDaemon
    /\ \E t \in 0..MaxRestoreItems :
       \E w \in 0..(MaxRestoreItems - t) :
       \E us \in Tuples(TabUrls, t), ws \in Tuples(RestoreWindows, w),
          c \in BOOLEAN, f \in SUBSET (1..MaxFailAt) :
           args = [fn |-> "restore_session",
                   tabs |-> [i \in 1..t |-> [url |-> us[i]]],
                   windows |-> ws, chrome_exe |-> c, fails |-> f]
    /\ ret = NoCall

NextRestore == RestoreLaunches

\* the launches of one restore_session call
SpecRestore == InitRestore /\ [][NextRestore]_vars

\* the items of the call, whether a browser executable is installed, and the
\* launches the operating system refuses
InitLauncher ==
    /\ InitDaemon
    /\ \E n \in 0..MaxOpenItems :
       \E items \in Tuples(LauncherItems, n), browser \in BOOLEAN,
          f \in SUBSET (1..MaxFailAt) :
           args = [fn |-> "open_all", items |-> items, browser |-> browser,
                   fails |-> f]
    /\ ret = NoCall

NextLauncher == OpenAll

\* one launcher.open_all call
SpecLauncher == InitLauncher /\ [][NextLauncher]_vars

\* the three interval timers fire until stop()
PollTimer     == ~stopped /\ PollCapture
SnapshotTimer == ~stopped /\ SnapshotAll
TimeTimer     == ~stopped /\ _tick_time

\* the prompt is answered while the application runs
SessionNamedRunning == ~stopped /\ SessionNamed

\* the daemon's timers around stop()
NextStop ==
    \/ stop
    \/ PollTimer
    \/ SnapshotTimer
    \/ TimeTimer
    \/ DelayedSnapshot
    \/ SessionNamedRunning
    \/ CreateDesktopSmall
    \/ SwitchDesktop
    \/ OpenCaptureWindow

SpecStop == Init /\ [][NextStop]_vars

\* the app views of one get_apps_by_z_order() result: window handles are
\* distinct (0: the view has none), each view sits on a desktop or its
\* desktop lookup raises
InitSnapshot ==
    /\ InitDaemon
    /\ \E n \in 0..MaxApps :
       \E kinds \in Tuples(AppKinds, n),
          ds \in Tuples({None} \cup (1..MaxDesktopsSmall), n),
          nohwnd \in {{}, {1}} :
           args = [fn |-> "snapshot_all_desktops",
                   all_apps |-> [i \in 1..n |->
                       [hwnd      |-> IF i \in nohwnd THEN 0 ELSE i,
                        is_window |-> kinds[i].is_window,
                        title     |-> kinds[i].title,
                        parent    |-> kinds[i].parent,
                        caption   |-> kinds[i].caption,
                        exe_name  |-> kinds[i].exe_name,
                        desktop   |-> ds[i]]]]
    /\ ret = NoCall

NextSnapshot == SnapshotAllDesktops

\* one snapshot_all_desktops call
SpecSnapshot == InitSnapshot /\ [][NextSnapshot]_vars

\* the elements of a set of naturals in increasing order
RECURSIVE Sorted(_)
Sorted(S) ==
    IF S = {} THEN <<>>
    ELSE LET m == CHOOSE x \in S : \A y \in S : x <= y IN <<m>> \o Sorted(S \ {m})

\* the stored windows (one per chosen executable name, the first name once
\* more when twice is set) and the session row of the call
InitStats ==
    /\ InitDaemon
    /\ \E names \in SUBSET (1..MaxNames), twice \in BOOLEAN,
          m \in 0..MaxMinutes, r \in {0, 59}, found \in BOOLEAN :
           /\ twice => names # {}
           /\ ~found => (m = 0 /\ r = 0)
           /\ args = [fn |-> "get_session_stats",
                      windows |->
                          LET once == [i \in 1..Cardinality(names) |->
                                          [exe_name |-> StatName(Sorted(names)[i])]]
                          IN  IF twice THEN Append(once, once[1]) ELSE once,
                      tabs |-> <<>>,
                      session |-> [found |-> found, total_seconds |-> 60 * m + r]]
    /\ ret = NoCall

NextStats == GetSessionStats

\* one get_session_stats call
SpecStats == InitStats /\ [][NextStats]_vars

\* the first start of the daemon, on an empty database
FirstStart == sessions = <<>> /\ Startup

\* desktop switches seen by _poll between desktops that have sessions
NextSwitch ==
    \/ FirstStart
    \/ PollCapture
    \/ SessionNamed
    \/ CreateDesktopSmall
    \/ SwitchDesktop
    \/ OpenCaptureWindow
    \/ CloseWindow

SpecSwitch == Init /\ [][NextSwitch]_vars

\* the writers of the status column other than restore_session: polling, the
\* start-up scan and the native host
NextStatus ==
    \/ PollCapture
    \/ Startup
    \/ HostSetActiveSession
    \/ SessionNamed
    \/ CreateDesktopSmall
    \/ RemoveDesktop
    \/ SwitchDesktop

SpecStatus == Init /\ [][NextStatus]_vars

\* relaunching the application while every query of the desktop service works
StartupScan ==
    \E m \in _load_session_map, fcap \in BOOLEAN :
        _scan_all_desktops_on_startup(m, FALSE, fcap)

SessionNamedCurrent == _on_session_named(FALSE)

NextScan ==
    \/ StartupScan
    \/ PollCapture
    \/ SessionNamedCurrent
    \/ CreateDesktopSmall
    \/ RemoveDesktop
    \/ SwitchDesktop
    \/ OpenCaptureWindow
    \/ CloseWindow

SpecScan == Init /\ [][NextScan]_vars

\* the same with sessions restored to desktops of their own
NextScanRestore ==
    \/ NextScan
    \/ RestoreSmall

SpecScanRestore == Init /\ [][NextScanRestore]_vars

\* naming the detected desktops: nothing is removed, suppressed or cancelled
\* and every query works, so each desktop the poller has seen beyond the
\* first was announced by new_desktop_detected
NextNaming ==
    \/ PollCapture
    \/ SessionNamedCurrent
    \/ CreateDesktop
    \/ SwitchDesktop

SpecNaming == Init /\ [][NextNaming]_vars

\* prompts that are answered or cancelled, the timers and relaunches that
\* follow, every query working
NextCancel ==
    \/ SessionCancelledObserved
    \/ SessionNamedCurrent
    \/ PollCapture
    \/ SnapshotAll
    \/ StartupScan
    \/ CreateDesktopSmall
    \/ SwitchDesktop
    \/ OpenCaptureWindow

SpecCancel == Init /\ [][NextCancel]_vars

\* create_session called once by each thread, for any of the first desktops
CreateCallEnter ==
    \E t \in CallThreads, desktop_id \in 1..MaxDesktopsSmall : CallEnter(t, desktop_id)

CreateCallSelect == \E t \in CallThreads : CallSelect(t)
CreateCallInsert == \E t \in CallThreads : CallInsert(t)
CreateCallCommit == \E t \in CallThreads : CallCommit(t)
CreateCallStore  == \E t \in CallThreads : CallStore(t)

NextCreate ==
    \/ CreateCallEnter
    \/ CreateCallSelect
    \/ CreateCallInsert
    \/ CreateCallCommit
    \/ CreateCallStore

SpecCreate == Init /\ [][NextCreate]_vars

\* salvage with the windows that a closing desktop hands over on record
NextMigrate ==
    \/ PollCapture
    \/ SessionNamed
    \/ CreateDesktopSmall
    \/ RemoveDesktopObserved
    \/ SwitchDesktop
    \/ OpenWindow
    \/ CloseWindow

SpecMigrate == Init /\ [][NextMigrate]_vars

\* the snapshot timer next to sessions whose desktops are closed
NextFrozen ==
    \/ FirstStart
    \/ PollCapture
    \/ SnapshotAll
    \/ SessionNamedCurrent
    \/ CreateDesktopSmall
    \/ RemoveDesktop
    \/ OpenCaptureWindow

SpecFrozen == Init /\ [][NextFrozen]_vars

\* ---- properties -----------------------------------------------------------
Status(session_id) == sessions[session_id].status

ActiveSessions == {i \in DOMAIN sessions : Status(i) = "active"}

\* C1: at every reachable state the number of stored sessions whose status
\* is 'active' is 0 or 1.
C1_AtMostOneActive == Cardinality(ActiveSessions) <= 1

\* windows[session_id] is non-empty and the capture handed to
\* _save_snapshot_safe is empty
EmptyOverStored(session_id, ws) ==
    ws = <<>> /\ session_id \in DOMAIN windows /\ windows[session_id] # <<>>

WindowsKept(session_id) == windows'[session_id] = windows[session_id]

\* C2: in every handler that routes a capture through _save_snapshot_safe
\* (the periodic _snapshot_all, the delayed first snapshot, force_snapshot and
\* the switch-time snapshot of _poll), an empty capture for a session with a
\* non-empty stored window list leaves that stored list as it was.  A step
\* that leaves the whole windows table alone keeps every list.
C2_AntiRegression ==
    [][\/ windows' = windows
       \/ \A fcap \in BOOLEAN :
            /\ _snapshot_all(fcap) =>
                  \A d \in Snapshotted :
                      EmptyOverStored(_session_map[d], snapshot_all_desktops(fcap, d))
                          => WindowsKept(_session_map[d])
            /\ \A p \in first_snapshot :
                  (EmptyOverStored(p[1], snapshot_all_desktops(fcap, p[2]))
                     /\ FirstSnapshot(p[1], p[2], fcap))
                      => WindowsKept(p[1])
            /\ (EmptyOverStored(_session_map[os_current],
                                snapshot_all_desktops(fcap, os_current))
                  /\ force_snapshot(FALSE, fcap))
                  => WindowsKept(_session_map[os_current])
            /\ (/\ Cardinality(desktops) = _prev_count
                /\ os_current # _active_id /\ InMap(_active_id)
                /\ EmptyOverStored(_session_map[_active_id],
                                   snapshot_all_desktops(fcap, _active_id))
                /\ PollTick(FALSE, fcap))
                  => WindowsKept(_session_map[_active_id])
      ]_vars

\* an empty capture was skipped and the session still has its windows
C2_Witness == \E sid \in out.kept_previous : windows[sid] # <<>>

\* C3: receiving an empty tab list for a session (receive_chrome_tabs or the
\* native host's tabs_snapshot) leaves a stored non-empty tab set unchanged.
C3_TabsNotEmptied ==
    [][\A sid \in SessionIds :
        ((handle_tabs_snapshot(sid, <<>>) \/ receive_chrome_tabs(sid, <<>>))
            /\ chrome_tabs[sid] # <<>>)
        => chrome_tabs'[sid] = chrome_tabs[sid]
      ]_vars

\* C4: for each desktop id at most one stored session with that
\* virtual_desktop_id has status active or paused.
C4_OneSessionPerDesktop ==
    \A d \in DesktopIds :
        Cardinality({i \in DOMAIN sessions :
                        /\ sessions[i].virtual_desktop_id = d
                        /\ Status(i) \in {"active", "paused"}}) <= 1

\* C5: create_session called twice for the same desktop id returns the same
\* session id and leaves one session row with that desktop id; create_log[i]
\* is the desktop id of the call that returned session id i.
C5_CreateIdempotent ==
    \A i, j \in DOMAIN create_log :
        (/\ create_log[i] # None
         /\ create_log[i] = create_log[j]
         /\ sessions[i].virtual_desktop_id = create_log[i]
         /\ sessions[j].virtual_desktop_id = create_log[j]) => i = j

\* C6: in a poll tick whose OS queries succeed, every desktop that was known
\* at the previous tick, is bound (in the daemon's map and in the store) to an
\* active or paused session and no longer exists has its session idle when
\* the tick completes.
C6_RemovedBecomesIdle ==
    [][\A fcap \in BOOLEAN :
        PollTick(FALSE, fcap) =>
            \A d \in _prev_ids \ desktops :
                (/\ InMap(d)
                 /\ sessions[_session_map[d]].virtual_desktop_id = d
                 /\ Status(_session_map[d]) \in {"active", "paused"})
                    => sessions'[_session_map[d]].status = "idle"
      ]_vars

\* C7: a poll tick whose desktop enumeration fails changes no session's
\* status and announces nothing, and a tick whose enumeration succeeds marks
\* no session idle whose desktop still exists.
C7_FailedTickSkipped ==
    [][\A fcap \in BOOLEAN :
        /\ PollTick(TRUE, fcap) =>
              /\ sessions' = sessions
              /\ out'.new_desktop_detected = {}
        /\ PollTick(FALSE, fcap) =>
              \A d \in desktops :
                  (InMap(d) /\ Status(_session_map[d]) # "idle")
                      => sessions'[_session_map[d]].status # "idle"
      ]_vars

\* exe names compared the way the claim words it: any stored exe_name
LiteralMatch(stored, capture) ==
    SelectSeq(capture, LAMBDA w :
        \E i \in DOMAIN stored : Lower(w.exe_name) = Lower(stored[i].exe_name))

\* exe names compared on the non-empty stored names only
NamedMatch(stored, capture) ==
    SelectSeq(capture, LAMBDA w :
        \E i \in DOMAIN stored :
            stored[i].exe_name # "" /\ Lower(w.exe_name) = Lower(stored[i].exe_name))

\* the salvage outcome for every removed, bound desktop of one removal tick
SalvageOutcome(Match(_, _)) ==
    \A fcap \in BOOLEAN :
        (Cardinality(desktops) < _prev_count /\ PollTick(FALSE, fcap)) =>
            \A d \in _prev_ids \ desktops :
                (InMap(d) /\ windows[_session_map[d]] # <<>>) =>
                    LET sid == _session_map[d]
                        m   == Match(windows[sid],
                                     snapshot_all_desktops(fcap, os_current))
                    IN  windows'[sid] = IF m # <<>> THEN m ELSE windows[sid]

\* C8 (as stated): after salvage the stored windows are exactly the captured
\* windows of the now-active desktop whose exe_name matches, ignoring case, an
\* exe name stored for the session, or the old list if there is none.
C8_SalvageAsStated == [][SalvageOutcome(LiteralMatch)]_vars

\* C8 (amended): the same, where only non-empty stored exe names count.
C8_SalvageNamed == [][SalvageOutcome(NamedMatch)]_vars

\* a salvage replaced the stored windows of a session
C8_Witness == \E sid \in out.salvaged : windows[sid] # <<>>

C10_RestoreNotAnnounced == out.new_desktop_detected \cap restore_created = {}

\* C11: every restore_session call leaves the session active and bound to a
\* desktop that the call itself created.
C11_RestoreRebinds ==
    [][\A sid \in SessionIds, created \in BOOLEAN :
          restore_session(sid, created) =>
              /\ sessions'[sid].status = "active"
              /\ sessions'[sid].virtual_desktop_id \in desktops' \ desktops
      ]_vars

\* the stored active or paused sessions bound to desktop d
BoundSessions(d) ==
    {i \in DOMAIN sessions : /\ sessions[i].virtual_desktop_id = d
                             /\ sessions[i].status \in {"active", "paused"}}

\* what start-up reconciliation has to leave behind
Reconciled(fcap) ==
    \A d \in desktops :
        LET captured == snapshot_all_desktops(fcap, d)
            created  == {i \in DOMAIN sessions' \ DOMAIN sessions :
                            sessions'[i].virtual_desktop_id = d}
        IN  /\ \A i \in BoundSessions(d) :
                  sessions'[i].status =
                      IF d = os_current THEN "active" ELSE "paused"
            /\ (BoundSessions(d) = {} /\ captured # <<>>) =>
                  \E i \in created :
                      /\ windows'[i] = captured
                      /\ \A j \in created : j = i
            /\ (BoundSessions(d) = {} /\ captured = <<>>) => created = {}

\* C12: after the start-up scan every existing desktop bound to an active or
\* paused session has that session active if the desktop has focus and paused
\* otherwise; every existing unbound desktop with captured windows has one new
\* session holding exactly those windows; an unbound desktop without captured
\* windows has no new session.
C12_StartupReconciles ==
    [][\A m \in _load_session_map, fail, fcap \in BOOLEAN :
          _scan_all_desktops_on_startup(m, fail, fcap) => Reconciled(fcap)
      ]_vars

\* the sessions that have an entry in the daemon's _session_map
Tracked == {_session_map[d] : d \in {x \in DesktopIds : InMap(x)}}

\* C13: a time tick adds exactly 60 to total_seconds of every tracked session
\* whose stored status is active and nothing to any other session.
C13_TickAddsSixty ==
    [][\/ ~_tick_time
       \/ \A i \in DOMAIN sessions :
             sessions'[i].total_seconds =
                 sessions[i].total_seconds +
                     (IF i \in Tracked /\ sessions[i].status = "active"
                      THEN 60 ELSE 0)
      ]_vars

\* an active session has been credited three ticks, 180 seconds
C13_Witness ==
    \E i \in DOMAIN sessions :
        sessions[i].status = "active" /\ sessions[i].total_seconds = 180

C15_FailedTickRetried ==
    [][\A fcap \in BOOLEAN :
          /\ PollTick(TRUE, fcap) =>
                /\ _prev_count' = _prev_count /\ _prev_ids' = _prev_ids
                /\ sessions' = sessions
          /\ \A fail \in BOOLEAN :
                (PollWrites(fail) /\ PollTickDbDown(fail, fcap)) =>
                    /\ _prev_count' = _prev_count /\ _prev_ids' = _prev_ids
                    /\ sessions' = sessions /\ _active_id' = _active_id
      ]_vars

\* C16: for every desktop id d, a naming request for d is emitted only while
\* no earlier request for d is unanswered and no create_session(name, d) has
\* been called without raising (in progress or returned); and whenever d has
\* no unanswered request and no session, a detection of d emits a request.
C16_OneNamingRequest ==
    [][\A d \in DesktopIds :
         /\ requests'[d] > requests[d]
               => requests[d] = 0 /\ creating # d /\ _active[d] = None
         /\ (requests[d] = 0 /\ creating = None /\ _active[d] = None) => Emits(d)
      ]_vars

\* C17: a hotkey handler invoked less than 500 ms after the previous
\* invocation is ignored: of two invocations less than 500 ms apart, on
\* whatever threads, at most one reaches _handle_new_desktop.
C17_Debounce ==
    \A h1, h2 \in HotkeyThreads :
        (/\ h1 # h2
         /\ hotkey_threads[h1].pc = "reached"
         /\ hotkey_threads[h2].pc = "reached")
        => \/ hotkey_threads[h1].now - hotkey_threads[h2].now >= DEBOUNCE
           \/ hotkey_threads[h2].now - hotkey_threads[h1].now >= DEBOUNCE

Urls(tabs) == [i \in 1..Len(tabs) |-> tabs[i].url]

\* C18: the daemon's read of a session's stored tabs and its rewrite of them
\* are not separated by another writer: when _save_snapshot_safe rewrites the
\* tabs of a session, the list it read is still the stored list, so a list
\* stored by the native host is never replaced by an older one.
C18_WritersSerialized ==
    [][(saving.session_id # None /\ saving' = NotSaving
           /\ ~KeepsPrevious(DB, saving.session_id, saving.windows))
        => Urls(saving.tabs) = Urls(chrome_tabs[saving.session_id])
      ]_vars

\* C19: db.save_snapshot is all-or-nothing: a call in which one of the writes
\* fails inserts no snapshot record and leaves the stored windows and tabs as
\* they were.
C19_SaveSnapshotAtomic ==
    [][\A fcur, fail \in BOOLEAN, committed \in 0..2 :
           force_snapshot_raising(fcur, fail, committed)
               => out'.log = <<>> /\ UNCHANGED db_vars
      ]_vars

\* what one _save_snapshot_safe(session_id, ws) call must leave behind
CaptureWriteOutcome(session_id, ws) ==
    IF ws = <<>> /\ windows[session_id] # <<>>
    THEN /\ out'.log = <<Stamped(session_id)>>
         /\ out'.snapshot_saved = {}
         /\ UNCHANGED db_vars
    ELSE /\ Len(windows'[session_id]) = Len(ws)
         /\ \A i \in 1..Len(ws) :
               /\ windows'[session_id][i].hwnd = ws[i].hwnd
               /\ windows'[session_id][i].exe_name = ws[i].exe_name
         /\ out'.log = << [ev |-> "snapshots", session_id |-> session_id,
                           window_count |-> Len(ws),
                           tab_count |-> Len(chrome_tabs'[session_id])],
                          Stamped(session_id), Emitted(session_id) >>
         /\ out'.snapshot_saved = {session_id}

\* C20: a skipped empty capture (stored windows non-empty) appends no snapshot
\* record, leaves the stored tabs (and windows) as they are, only sets the
\* last-snapshot timestamp and does not emit snapshot_saved; every other
\* capture write replaces the stored windows by the captured list, appends
\* exactly one snapshot record with window_count = captured windows and
\* tab_count = stored tabs, and emits snapshot_saved exactly once.
C20_CaptureWriteOutcome ==
    [][/\ \A fcur, fail \in BOOLEAN :
            \/ ~force_snapshot(fcur, fail)
            \/ CaptureWriteOutcome(_session_map[os_current],
                                   snapshot_all_desktops(fail, os_current))
       /\ \A p \in first_snapshot, fail \in BOOLEAN :
            \/ ~FirstSnapshot(p[1], p[2], fail)
            \/ CaptureWriteOutcome(p[1], snapshot_all_desktops(fail, p[2]))
      ]_vars

C20_Witness ==
    /\ Len(out.log) = 3
    /\ out.log[1].ev = "snapshots"
    /\ out.log[1].window_count = 1
    /\ out.log[1].tab_count = 1

SnapshotEvents(log) ==
    {i \in DOMAIN log : log[i].ev \in {"snapshots", "snapshots_deleted"}}

C22_DeleteCascades ==
    [][\A s \in DOMAIN sessions' :
          sessions'[s] = Deleted =>
             /\ windows'[s] = <<>>
             /\ chrome_tabs'[s] = <<>>
             /\ \A i \in DOMAIN out'.log :
                   (out'.log[i].ev = "snapshots" => out'.log[i].session_id # s)
             /\ sessions[s] # Deleted
                   => \E i \in DOMAIN out'.log : out'.log[i] = Cascade(s)
      ]_vars

\* a capture write for a deleted session that is still in _session_map
C22_Witness ==
    \E d \in desktops :
        /\ InMap(d)
        /\ sessions[_session_map[d]] = Deleted
        /\ \E i \in DOMAIN out.log : out.log[i] = Failed(_session_map[d])

\* what a launch attempt starts: the URL for a browser tab, the command line
\* for everything else
Identity(a) ==
    IF a.exe = "chrome.exe" \/ a.via = "webbrowser.open" THEN <<"", a.arg>>
    ELSE <<a.exe, a.arg>>

\* C23: during one restore_session no two launches that started something
\* have the same resolved identity (no tab URL opened twice, no executable
\* launched twice), whatever the stored tabs and windows and whichever
\* launches fail.
C23_NoDuplicateLaunch ==
    ret.fn = "restore_session" =>
        \A i, j \in DOMAIN ret.log :
            (i < j /\ ret.log[i].ok /\ ret.log[j].ok)
                => Identity(ret.log[i]) # Identity(ret.log[j])

\* the tab URLs restore_session is to reopen
Restorable(tabs) ==
    {tabs[i].url : i \in {k \in DOMAIN tabs :
        tabs[k].url[1] \notin {"chrome://", "about:"}}}

\* C24: a failed launch in restore_session stops neither the remaining items
\* nor the remaining categories from being attempted (every restorable tab
\* URL, every editor window, every office file, every terminal and every
\* other executable has an attempt in the log), and the returned total is the
\* sum of the five per-category counts.
C24_LaunchFailuresIsolated ==
    ret.fn = "restore_session" =>
        LET ws == args.windows
            L  == ret.log
            attempted(exe, arg) == \E k \in DOMAIN L : L[k].exe = exe /\ L[k].arg = arg
        IN  /\ ret.total = ret.tabs + ret.vscode + ret.office + ret.terminals + ret.other
            /\ \A u \in Restorable(args.tabs) : \E k \in DOMAIN L : L[k].arg = u
            /\ \A i \in DOMAIN ws :
                  /\ Lower(ws[i].exe_name) = "code.exe"
                        => \/ attempted("code", ws[i].folder)
                           \/ attempted("code", <<>>)
                  /\ (Lower(ws[i].exe_name) \in OFFICE_APPS /\ ws[i].file # <<>>)
                        => \E k \in DOMAIN L : L[k].arg = ws[i].file
                  /\ Lower(ws[i].exe_name) \in term_exes
                        => attempted(TermCmd(Lower(ws[i].exe_name)), <<>>)
                  /\ (Lower(ws[i].exe_name) \notin _SKIP_RESTORE_EXES
                         /\ path_exists(ws[i].exe_path))
                        => attempted(ws[i].exe_path, <<>>)
            /\ Cardinality({k \in DOMAIN L : L[k].exe = "code"})
                  >= Cardinality({i \in DOMAIN ws : Lower(ws[i].exe_name) = "code.exe"})

\* the first Chrome launch fails, the tab is then opened through webbrowser
\* and a stored terminal is started after it
C24_Witness ==
    /\ ret.fn = "restore_session"
    /\ Len(ret.log) = 3
    /\ ret.log[1].exe = "chrome.exe" /\ ~ret.log[1].ok
    /\ ret.log[2].via = "webbrowser.open" /\ ret.log[2].ok
    /\ ret.log[3].exe = "cmd" /\ ret.log[3].ok
    /\ ret.total = 2

\* C25: open_all passes every item to open_item exactly once and in order
\* whatever failed before, launches at most once per item, and returns
\* total = number of items, opened + failed = total and one error entry per
\* failed item, in order; an item of unknown type is a failed item.
C25_OpenAllCounts ==
    ret.fn = "open_all" =>
        LET items   == args.items
            failing == SelectSeq([i \in DOMAIN items |-> i],
                                 LAMBDA i : ~ret.success[i])
        IN  /\ ret.calls = items
            /\ \A j, k \in DOMAIN ret.log : j < k => ret.log[j].item < ret.log[k].item
            /\ ret.total = Len(items)
            /\ ret.opened + ret.failed = ret.total
            /\ ret.failed = Len(failing)
            /\ Len(ret.errors) = Len(failing)
            /\ \A k \in DOMAIN ret.errors :
                  ret.errors[k][1] = Get(items[failing[k]], "label", "?")
            /\ \A i \in DOMAIN items :
                  Get(items[i], "type", "") \notin {"file", "url", "app"}
                      => ~ret.success[i]

\* the launch of the first item is refused and the second item is opened
C25_Witness ==
    /\ ret.fn = "open_all"
    /\ ret.total = 2 /\ ret.opened = 1 /\ ret.failed = 1
    /\ Len(ret.log) = 2 /\ ~ret.log[1].ok /\ ret.log[2].ok
    /\ ret.success = <<FALSE, TRUE>>

\* C26: once stop() has returned no handler of the daemon changes stored
\* state: no poll tick, no periodic snapshot, no time tick and no delayed
\* first snapshot scheduled by an earlier register_session.
C26_StoppedDaemonIsQuiet ==
    [][stopped => UNCHANGED db_vars]_vars

\* the window of app view app is listed under desktop id d
Listed(app, d) ==
    \E k \in DOMAIN ret.result[d] : ret.result[d][k].hwnd = app.hwnd

\* how often the window of app view app is listed, over all desktop ids
TimesListed(app) ==
    Cardinality({<<d, k>> \in (1..MaxDesktopsSmall) \X (1..MaxApps) :
                    /\ k \in DOMAIN ret.result[d]
                    /\ ret.result[d][k].hwnd = app.hwnd})

\* C27 as stated: a window is listed under d iff it exists, its title has
\* length at least 2, it has no parent, it has the caption flag, its
\* executable is not in the denylist and its desktop was determined to be d.
C27_ListedIffAsStated ==
    ret.fn = "snapshot_all_desktops" =>
        \A i \in DOMAIN args.all_apps, d \in 1..MaxDesktopsSmall :
            LET app == args.all_apps[i] IN
            Listed(app, d) <=>
                /\ app.hwnd # 0 /\ app.is_window
                /\ Len(app.title) >= 2
                /\ app.parent = 0
                /\ app.caption
                /\ Lower(app.exe_name) \notin EXCLUDED_EXE
                /\ app.desktop = d

\* C27, amended: a window is listed under d iff it exists, its title without
\* leading and trailing whitespace has length at least 2, it has no parent, it
\* has the caption flag, its lower-cased executable name is not in the
\* denylist and its desktop was determined to be d; a listed window is listed
\* once, and a window whose desktop lookup fails is listed nowhere.
C27_ListedIff ==
    ret.fn = "snapshot_all_desktops" =>
        \A i \in DOMAIN args.all_apps :
            LET app == args.all_apps[i] IN
            /\ \A d \in 1..MaxDesktopsSmall :
                  Listed(app, d) <=>
                      /\ app.hwnd # 0 /\ app.is_window
                      /\ Len(strip(app.title)) >= 2
                      /\ app.parent = 0
                      /\ app.caption
                      /\ Lower(app.exe_name) \notin EXCLUDED_EXE
                      /\ app.desktop = d
            /\ TimesListed(app) <= 1
            /\ app.desktop = None => TimesListed(app) = 0

\* a listed window next to one whose desktop lookup failed
C27_Witness ==
    /\ ret.fn = "snapshot_all_desktops"
    /\ Len(args.all_apps) = 2
    /\ args.all_apps[1].desktop = None /\ args.all_apps[1].hwnd # 0
    /\ args.all_apps[1].title = <<"a", "b">> /\ args.all_apps[1].caption
    /\ Len(ret.result[2]) = 1 /\ ret.result[2][1].hwnd = 2
    /\ ret.result[1] = <<>>

\* C28: the duration of get_session_stats is "< 1m" iff t < 60, "Nm" with
\* N = t div 60 iff 60 <= t < 3600, and "Nh Mm" with N = t div 3600 and
\* M = (t mod 3600) div 60 iff t >= 3600, t being the session's
\* total_seconds; apps holds at most 6 executable names of the stored
\* windows, none of them a system process name.
C28_SessionStats ==
    ret.fn = "get_session_stats" =>
        LET t == IF args.session.found THEN args.session.total_seconds ELSE 0
            d == ret.duration
        IN  /\ d.fmt = "< 1m" <=> t < 60
            /\ d.fmt = "Nm" <=> (60 <= t /\ t < 3600)
            /\ d.fmt = "Nh Mm" <=> t >= 3600
            /\ d.fmt = "Nm" => d.m = t \div 60
            /\ d.fmt = "Nh Mm" => (d.h = t \div 3600 /\ d.m = (t % 3600) \div 60)
            /\ Cardinality(ret.apps) <= 6
            /\ \A a \in ret.apps :
                  /\ \E i \in DOMAIN args.windows : args.windows[i].exe_name = a
                  /\ Lower(a) \notin {"explorer.exe", "dwm.exe", "winlogon.exe"}

\* more than an hour on a session with seven applications and a shell window
C28_Witness ==
    /\ ret.fn = "get_session_stats"
    /\ ret.duration = [fmt |-> "Nh Mm", h |-> 1, m |-> 1]
    /\ args.session.total_seconds = 3719
    /\ ret.app_count = 7 /\ Cardinality(ret.apps) = 6
    /\ \E i \in DOMAIN args.windows : args.windows[i].exe_name = "Explorer.EXE"

\* the session the daemon has bound to desktop d (None: none, or d is None)
BoundTo(d) == IF d # None /\ InMap(d) THEN _session_map[d] ELSE None

\* C29: a poll tick that sees an unchanged desktop count and a current
\* desktop other than the remembered one captures the session bound to the
\* remembered desktop and sets it to paused, sets the session bound to the
\* current desktop to active and remembers the current desktop; a tick that
\* sees the remembered desktop changes no status.
C29_SwitchTick ==
    [][\A fcap \in BOOLEAN :
          (PollTick(FALSE, fcap) /\ Cardinality(desktops) = _prev_count) =>
              LET old == BoundTo(_active_id)
                  new == BoundTo(os_current)
                  ws  == snapshot_all_desktops(fcap, _active_id)
              IN  IF os_current # _active_id
                  THEN /\ _active_id' = os_current
                       /\ (new # None /\ Exists(DB, new))
                             => sessions'[new].status = "active"
                       /\ (old # None /\ Exists(DB, old) /\ old # new)
                             => /\ sessions'[old].status = "paused"
                                /\ \E i \in DOMAIN out'.log : out'.log[i] = Stamped(old)
                                /\ IF ws = <<>> /\ windows[old] # <<>>
                                   THEN windows'[old] = windows[old]
                                   ELSE Len(windows'[old]) = Len(ws)
                       /\ \A s \in DOMAIN sessions :
                             s \notin {old, new} => sessions'[s] = sessions[s]
                  ELSE sessions' = sessions
      ]_vars

\* the tick has captured and paused session 1 and activated session 2
C29_Witness ==
    /\ Len(sessions) = 2
    /\ BoundTo(_active_id) = 2
    /\ Status(2) = "active" /\ Status(1) = "paused"
    /\ out.snapshot_saved = {1}
    /\ windows[1] # <<>>

\* C30: once the poller has processed the creation of a desktop that took the
\* focus, no session bound to another desktop is active.
C30_CreationPausesPrevious ==
    [][\A fcap \in BOOLEAN :
          (/\ PollTick(FALSE, fcap)
           /\ Cardinality(desktops) > _prev_count
           /\ os_current \in desktops \ _prev_ids) =>
              \A d \in DesktopIds :
                  (/\ d # os_current
                   /\ InMap(d)
                   /\ Exists(DB, _session_map[d]))
                      => sessions'[_session_map[d]].status # "active"
      ]_vars

\* C31: a paused session whose desktop has the focus becomes active within
\* the following poll ticks without a further switch: a tick that sees an
\* unchanged desktop set with the focus on that desktop makes it active.  This
\* is the tick that follows the removal of the active desktop.
C31_FocusRegained ==
    [][\A fcap \in BOOLEAN :
          (/\ Cardinality(desktops) = _prev_count
           /\ desktops = _prev_ids
           /\ BoundTo(os_current) # None
           /\ Exists(DB, BoundTo(os_current))
           /\ sessions[BoundTo(os_current)].status = "paused"
           /\ sessions[BoundTo(os_current)].virtual_desktop_id = os_current
           /\ PollTick(FALSE, fcap))
              => sessions'[BoundTo(os_current)].status = "active"
      ]_vars

\* C32: every change of a stored status is one of active -> paused,
\* paused -> active, active or paused -> idle; idle -> active is made by
\* restore_session alone, so where restore_session is not called no poll tick,
\* start-up scan or native-host message moves a session out of idle.
StatusStep(a, b) ==
    \/ a = b
    \/ <<a, b>> \in {<<"active", "paused">>, <<"paused", "active">>,
                     <<"active", "idle">>, <<"paused", "idle">>}

C32_StatusMachine ==
    [][\A i \in DOMAIN sessions :
          (Exists(DB, i) /\ sessions'[i] # Deleted)
              => StatusStep(sessions[i].status, sessions'[i].status)
      ]_vars

\* C33: a poll tick with a working desktop service handles every desktop id
\* that is present and was not in the id set of the previous tick: the id is
\* announced by new_desktop_detected or swallowed by the suppress counter,
\* never both, whatever was removed since the previous tick; no other id is
\* announced or swallowed.
C33_NewIdsHandled ==
    [][\A fcap \in BOOLEAN :
          PollTick(FALSE, fcap)
              => /\ out'.new_desktop_detected \cup out'.suppressed
                        = desktops \ _prev_ids
                 /\ out'.new_desktop_detected \cap out'.suppressed = {}
      ]_vars

\* C34: a start-up scan with a working desktop service leaves every session
\* idle that was active or paused and is bound to a desktop that no longer
\* exists, and marks no session idle whose desktop exists.
C34_StartupOrphans ==
    [][\A m \in _load_session_map, fcap \in BOOLEAN :
          _scan_all_desktops_on_startup(m, FALSE, fcap)
              => \A i \in DOMAIN sessions :
                    (Exists(DB, i) /\ sessions[i].virtual_desktop_id # None)
                        => /\ (/\ sessions[i].status \in {"active", "paused"}
                               /\ sessions[i].virtual_desktop_id \notin desktops)
                                  => sessions'[i].status = "idle"
                           /\ (/\ sessions[i].status # "idle"
                               /\ sessions[i].virtual_desktop_id \in desktops)
                                  => sessions'[i].status # "idle"
      ]_vars

\* C35: confirming a name binds the new session to the desktop whose detection
\* raised the prompt, whatever desktop has the focus, and this holds for every
\* detected desktop: a detected desktop that the confirmation does not bind
\* still has its prompt afterwards.  (Under SpecNaming the detected desktops
\* are the ids of _prev_ids other than the first desktop.)
DetectedUnbound == {d \in _prev_ids \ {1} : ~InMap(d)}

C35_BoundToDetected ==
    [][_on_session_named(FALSE) =>
          /\ Len(sessions') = Len(sessions) + 1
          /\ sessions'[Len(sessions')].virtual_desktop_id \in DetectedUnbound
          /\ \A d \in DetectedUnbound :
                \/ sessions'[Len(sessions')].virtual_desktop_id = d
                \/ prompt_shown' /\ _pending_desktop_id' = d
      ]_vars

\* C36: a desktop whose naming prompt was cancelled has no session: no stored
\* session is bound to it, whatever ran after the cancellation.
C36_CancelledHasNoSession ==
    \A d \in cancelled :
        \A i \in DOMAIN sessions : sessions[i].virtual_desktop_id # d

\* C37: two finished create_session calls of the threaded daemon for the same
\* desktop id have both returned, neither has raised, they returned the same
\* session id, and the sessions table holds exactly one row for the desktop.
Finished(t) == create_calls[t].pc \in {"returned", "raised"}

C37_CreateOnce ==
    \A t, u \in CallThreads :
        (/\ t # u /\ Finished(t) /\ Finished(u)
         /\ create_calls[t].desktop_id = create_calls[u].desktop_id)
            => /\ create_calls[t].pc = "returned"
               /\ create_calls[u].pc = "returned"
               /\ create_calls[t].id = create_calls[u].id
               /\ Cardinality({i \in DOMAIN core_sessions :
                        core_sessions[i] = create_calls[t].desktop_id}) = 1

\* C38: the in-memory map agrees with the store: every entry
\* desktop_id -> session_id names a stored session whose virtual_desktop_id is
\* that desktop_id.
C38_MapAgreesWithStore ==
    \A d \in DesktopIds :
        InMap(d) => /\ Exists(DB, _session_map[d])
                    /\ sessions[_session_map[d]].virtual_desktop_id = d

\* C39: the windows a poll tick stores by salvage for the session of a removed
\* desktop are only windows that the closing of that desktop moved.
C39_SalvageOnlyMigrated ==
    [][\A fcap \in BOOLEAN :
          PollTick(FALSE, fcap)
              => \A did \in _prev_ids \ desktops :
                    (InMap(did) /\ _session_map[did] \in out'.salvaged)
                        => \A k \in DOMAIN windows'[_session_map[did]] :
                              moved[windows'[_session_map[did]][k].hwnd] = did
      ]_vars

\* C40: a snapshot tick leaves every idle session as it is stored: its
\* windows and tabs are unchanged and the tick writes no record for it.
C40_IdleFrozen ==
    [][\A fail \in BOOLEAN :
          _snapshot_all(fail)
              => \A i \in DOMAIN sessions :
                    sessions[i].status = "idle"
                        => /\ windows'[i] = windows[i]
                           /\ chrome_tabs'[i] = chrome_tabs[i]
                           /\ \A k \in DOMAIN out'.log : out'.log[k].session_id # i
      ]_vars

\* a tick has stored the windows of the active session while an idle session
\* keeps the windows stored when its desktop was removed
C40_Witness ==
    /\ \E j \in out.snapshot_saved : Status(j) = "active" /\ windows[j] # <<>>
    /\ \E i \in DOMAIN sessions :
          /\ Status(i) = "idle"
          /\ windows[i] # <<>>
          /\ sessions[i].virtual_desktop_id \notin desktops
====
